---- MODULE Spec2Model ----
(***************************************************************************)
(* Convenient Discussions: the web worker that re-parses a talk page       *)
(* (src/src/js/modal.js, "@module worker", lines 1247-1446), the comment   *)
(* skeleton it constructs (src/src/js/CommentSkeleton.js) and the window   *)
(* side that polls it (src/src/js/navPanel.js).                            *)
(*                                                                         *)
(* A page is a flat sequence of block elements, written as a sequence of   *)
(* element kinds (the markup).  Parser.js, SectionSkeleton.js,             *)
(* timestamp.js and htmlparser2Extended.js are not part of the sources;    *)
(* the operators that stand for them follow spec.md sections 4.1-4.5.      *)
(***************************************************************************)
EXTENDS Integers, Sequences, FiniteSets, TLC

(***************************************************************************)
(* Bounds                                                                  *)
(***************************************************************************)
\* longest page (number of block elements) the server may hold
MaxItems == 3

(***************************************************************************)
(* Values                                                                  *)
(***************************************************************************)
Undefined == "undefined"
Null == "null"
NoNumber == 0 - 1


\* the markup vocabulary: one name per kind of block element
ElementKinds == {"ps", "dds", "h2", "fls", "uhs", "bad", "hbad"}

\* the markup vocabulary of threads: unsigned paragraphs ("p", "dd") that belong
\* to the comment signed below them, replies two levels deep, subsections
ThreadKinds == {"p", "dd", "ps", "pcs", "dds", "dd2s", "h2", "h3"}

\* the markup of pages with bare text, whitespace and list items: a run of inline
\* text, whitespace between blocks, a signed paragraph, a signed list item that
\* is alone in its list, and a heading
PartKinds == {"t", "ws", "ps", "dds", "h2"}

\* the class that a wiki may configure as unhighlightable
UhClass == "cd-uh"

\* values of cd.g that the window sends with a parse request
Globals ==
  {[CURRENT_USER_NAME |-> "Alice", UNHIGHLIGHTABLE_ELEMENTS_CLASSES |-> {}],
   [CURRENT_USER_NAME |-> "Bob", UNHIGHLIGHTABLE_ELEMENTS_CLASSES |-> {UhClass}]}

(***************************************************************************)
(* Sequence helpers                                                        *)
(***************************************************************************)
Last(s) == s[Len(s)]

Min(a, b) == IF a <= b THEN a ELSE b

\* Array.prototype.reverse(), as the array it returns
reverse(arr) == [i \in 1..Len(arr) |-> arr[Len(arr) + 1 - i]]

\* Object.assign(target, source): own properties of source overwrite target's
ObjectAssign(target, source) ==
  [k \in (DOMAIN target) \cup (DOMAIN source) |->
     IF k \in DOMAIN source THEN source[k] ELSE target[k]]

\* delete obj[k] for every k in props
DeleteProps(obj, props) == [k \in (DOMAIN obj) \ props |-> obj[k]]

\* obj[k] = v, creating the property when absent
SetProp(obj, k, v) == [j \in (DOMAIN obj) \cup {k} |-> IF j = k THEN v ELSE obj[j]]

(***************************************************************************)
(* Markup tree (spec.md 4.1; htmlparser2Extended.js is not in the sources) *)
(***************************************************************************)
HeadingTags == {"H1", "H2", "H3", "H4", "H5", "H6"}

Timestamp == "10:00, 1 January 2020"

\* the element that one markup token stands for, at document position i
Element(kind, i) ==
  LET base == [kind |-> kind, startIndex |-> i, tagName |-> "P", classList |-> {},
               style |-> "", levelsUp |-> 0, hasSignature |-> TRUE,
               authorName |-> "Alice", headline |-> Undefined, throws |-> "none",
               inline |-> FALSE, empty |-> FALSE, contains |-> {}]
  IN CASE kind = "ps"   -> base
       [] kind = "dds"  -> [base EXCEPT !.tagName = "DD", !.levelsUp = 1, !.authorName = "Bob"]
       [] kind = "h2"   -> [base EXCEPT !.tagName = "H2", !.hasSignature = FALSE,
                                         !.authorName = Undefined, !.headline = "Topic"]
       [] kind = "fls"  -> [base EXCEPT !.tagName = "DIV", !.style = "float: right"]
       [] kind = "uhs"  -> [base EXCEPT !.tagName = "DIV", !.classList = {UhClass},
                                         !.authorName = "Bob"]
       [] kind = "bad"  -> [base EXCEPT !.throws = "Error"]
       [] kind = "hbad" -> [base EXCEPT !.tagName = "H2", !.hasSignature = FALSE,
                                         !.authorName = Undefined, !.headline = "Topic",
                                         !.throws = "Error"]
       [] kind = "p"    -> [base EXCEPT !.hasSignature = FALSE, !.authorName = Undefined]
       [] kind = "dd"   -> [base EXCEPT !.tagName = "DD", !.levelsUp = 1,
                                         !.hasSignature = FALSE, !.authorName = Undefined]
       [] kind = "dd2s" -> [base EXCEPT !.tagName = "DD", !.levelsUp = 2,
                                         !.authorName = "Carol"]
       [] kind = "h3"   -> [base EXCEPT !.tagName = "H3", !.hasSignature = FALSE,
                                         !.authorName = Undefined, !.headline = "Subtopic"]
       [] kind = "pcs"  -> [base EXCEPT !.authorName = "Carol"]
       [] kind = "t"    -> [base EXCEPT !.tagName = "SPAN", !.inline = TRUE,
                                         !.hasSignature = FALSE, !.authorName = Undefined]
       [] kind = "ws"   -> [base EXCEPT !.tagName = "#text", !.inline = TRUE,
                                         !.empty = TRUE, !.hasSignature = FALSE,
                                         !.authorName = Undefined]

\* parseDOM(message.text, {withStartIndices: true, ...}): never fails (spec.md 4.1)
parseDOM(text) == [i \in 1..Len(text) |-> Element(text[i], i)]

IsHeadingElement(el) == el.tagName \in HeadingTags

(***************************************************************************)
(* Comment anchors (timestamp.js is not in the sources; spec.md 3, 6)      *)
(***************************************************************************)
\* resetCommentAnchors(): forget the anchors registered by the previous parse
resetCommentAnchors(registry) == << >>

\* the anchor of a signature: author and timestamp, plus a sequence number that
\* keeps the anchor unique among the anchors registered so far
generateCommentAnchor(registry, authorName, timestamp) ==
  <<authorName, timestamp,
    1 + Cardinality({i \in 1..Len(registry) :
                       registry[i][1] = authorName /\ registry[i][2] = timestamp})>>

(***************************************************************************)
(* Timestamp and signature scanner (Parser.js is not in the sources; 4.2)  *)
(***************************************************************************)
RECURSIVE findSignaturesFrom(_, _, _)
\* acc = [signatures, registry]
findSignaturesFrom(dom, i, acc) ==
  IF i > Len(dom) THEN acc
  ELSE IF ~dom[i].hasSignature THEN findSignaturesFrom(dom, i + 1, acc)
  ELSE LET anchor == generateCommentAnchor(acc.registry, dom[i].authorName, Timestamp)
           signature == [element |-> i, timestampText |-> Timestamp, date |-> Timestamp,
                         authorName |-> dom[i].authorName, anchor |-> anchor,
                         isUnsigned |-> FALSE]
       IN findSignaturesFrom(dom, i + 1,
            [signatures |-> Append(acc.signatures, signature),
             registry |-> Append(acc.registry, anchor)])

\* parser.findSignatures(parser.findTimestamps()): signatures in document order,
\* each anchor registered as it is generated
findSignatures(dom, registry) ==
  findSignaturesFrom(dom, 1, [signatures |-> << >>, registry |-> registry])

\* parser.findHeadings(): positions of the heading elements, in document order
findHeadings(dom) == SelectSeq([i \in 1..Len(dom) |-> i], LAMBDA i : IsHeadingElement(dom[i]))

(***************************************************************************)
(* Comment boundary resolver (Parser.js is not in the sources; 4.3 1-6)    *)
(***************************************************************************)
\* first position of the comment that ends at the signature element e: walk
\* back until a heading (claimed, inclusive) or an earlier signature
\* (exclusive) or the top of the page
RECURSIVE firstPartIndex(_, _)
firstPartIndex(dom, e) ==
  IF IsHeadingElement(dom[e]) \/ e = 1 THEN e
  ELSE IF dom[e - 1].hasSignature THEN e
  ELSE firstPartIndex(dom, e - 1)

\* a part of a comment, as the parser hands it to the constructor
Part(node) == [node |-> node, isHeading |-> IsHeadingElement(node)]

\* the list (dl, ul, ol) around a list item that is alone in it
ListAround(el) ==
  [el EXCEPT !.kind = "list", !.tagName = "DL", !.levelsUp = el.levelsUp - 1,
             !.hasSignature = FALSE, !.contains = {el.startIndex}]

\* the block that is made to wrap a run of inline parts
Wrapper(run) ==
  [run[1].node EXCEPT
     !.kind = "wrapper", !.tagName = "DIV", !.inline = FALSE,
     !.startIndex = run[Len(run)].node.startIndex,
     !.empty = (\A k \in 1..Len(run) : run[k].node.empty),
     !.contains = {run[k].node.startIndex : k \in 1..Len(run)}]

\* x lies within y, or is y
Within(x, y) == x = y \/ x.startIndex \in y.contains

\* parser.collectParts(signature.element) (4.3 step 1): walking backward from
\* the signature element at e to position first, every element on the way, and
\* walking upward, the list around an element that is a list item
RECURSIVE collectPartsFrom(_, _, _)
collectPartsFrom(dom, j, first) ==
  IF j < first THEN << >>
  ELSE <<Part(dom[j])>>
         \o (IF dom[j].levelsUp > 0 /\ ~IsHeadingElement(dom[j])
             THEN <<Part(ListAround(dom[j]))>> ELSE << >>)
         \o collectPartsFrom(dom, j - 1, first)

collectParts(dom, e) == collectPartsFrom(dom, e, firstPartIndex(dom, e))

\* parser.removeNestedParts(parts) (4.3 step 2): the parts that lie within no
\* other part
removeNestedParts(parts) ==
  SelectSeq(parts, LAMBDA p : ~\E k \in 1..Len(parts) :
                                  parts[k] # p /\ Within(p.node, parts[k].node))

\* the length of the run of inline parts that parts begins with
RECURSIVE inlineRun(_)
inlineRun(parts) ==
  IF parts = << >> \/ ~parts[1].node.inline THEN 0 ELSE 1 + inlineRun(Tail(parts))

\* parser.encloseInlineParts(parts, signature.element) (4.3 step 3): every run
\* of inline parts gives way to one block that wraps it
RECURSIVE encloseInlineParts(_)
encloseInlineParts(parts) ==
  IF parts = << >> THEN << >>
  ELSE IF inlineRun(parts) = 0
       THEN <<parts[1]>> \o encloseInlineParts(Tail(parts))
       ELSE <<Part(Wrapper(SubSeq(parts, 1, inlineRun(parts))))>>
              \o encloseInlineParts(SubSeq(parts, inlineRun(parts) + 1, Len(parts)))

\* parser.filterParts(parts) (4.3 step 4): the parts with content
filterParts(parts) == SelectSeq(parts, LAMBDA p : ~p.node.empty)

\* parser.replaceListsWithItems(parts, signature.element) (4.3 step 6): a list
\* with one item gives way to the item
replaceListsWithItems(parts, dom) ==
  [k \in 1..Len(parts) |->
     IF parts[k].node.kind = "list" THEN Part(dom[parts[k].node.startIndex])
     ELSE parts[k]]

\* the steps of the constructor without the removal of nested parts
resolveParts_Nested(dom, e) ==
  replaceListsWithItems(
    reverse(filterParts(encloseInlineParts(collectParts(dom, e)))), dom)

\* the constructor up to this.parts = parts: collectParts, removeNestedParts,
\* encloseInlineParts, filterParts, parts.reverse(), replaceListsWithItems
resolveParts(dom, e) ==
  replaceListsWithItems(
    reverse(filterParts(encloseInlineParts(removeNestedParts(collectParts(dom, e))))), dom)

\* parser.getLevelsUpTree(element): the indentation containers above element
getLevelsUpTree(el) == [d \in 1..el.levelsUp |-> <<"levelElement", d>>]

(***************************************************************************)
(* CommentSkeleton (src/src/js/CommentSkeleton.js)                         *)
(***************************************************************************)
\* /float: *(?:left|right)/.test(el.getAttribute('style'))
FloatRegexpTest(style) == style \in {"float: left", "float: right", "float:left", "float:right"}

\* isHighlightable without the test of the float style
isHighlightable_NoFloatTest(el, g) ==
  /\ el.tagName \notin HeadingTags
  /\ ~(\E name \in g.UNHIGHLIGHTABLE_ELEMENTS_CLASSES : name \in el.classList)

isHighlightable(el, g) ==
  /\ el.tagName \notin HeadingTags
  /\ ~(\E name \in g.UNHIGHLIGHTABLE_ELEMENTS_CLASSES : name \in el.classList)
  /\ ~FloatRegexpTest(el.style)

\* the id taken from the position of the signature instead
CommentId_FromSignature(cdComments, signatureIndex) == signatureIndex - 1

\* this.id = cd.comments.length
CommentId(cdComments, signatureIndex) == Len(cdComments)

\* a level taken from the top of the comment alone
setLevels_TopOnly(elements, highlightables) == Len(getLevelsUpTree(highlightables[1]))

\* setLevels(): Math.min(levelElements.top.length, levelElements.bottom.length)
setLevels(elements, highlightables) ==
  LET top == getLevelsUpTree(highlightables[1])
      bottom == IF Len(elements) > 1 THEN getLevelsUpTree(Last(highlightables)) ELSE top
  IN Min(Len(top), Len(bottom))

\* splice(1, 1) in place of splice(0, 1)
spliceHeading_SecondItem(list, level) ==
  IF level # 0 THEN <<Head(list)>> \o Tail(Tail(list)) ELSE list

\* a constructor that never cuts the heading off
spliceHeading_Never(list, level) == list

\* a constructor that cuts the heading off on the zeroth level only
spliceHeading_AtLevelZero(list, level) == IF level = 0 THEN Tail(list) ELSE list

\* if (this.level !== 0) { this.parts.splice(0, 1); this.elements.splice(0, 1); }
spliceHeading(list, level) == IF level # 0 THEN Tail(list) ELSE list

\* a match that always yields the first depth
headingLevelMatch_One(tagName) == 1

\* Number(tagName.match(/^H([1-6])$/)[1])
headingLevelMatch(tagName) ==
  CHOOSE n \in 1..6 : tagName = <<"H1", "H2", "H3", "H4", "H5", "H6">>[n]

\* new Document(dom): what the tree holds of each element's attributes before
\* any comment is constructed (no id, no data-comment-id)
Document(dom) ==
  [i \in 1..Len(dom) |->
     [classList |-> dom[i].classList, id |-> << >>, dataCommentId |-> NoNumber]]

\* addAttributes(): the tree once the elements of the comment have been given
\* the anchor as id (first element, if it has none), the classes
\* cd-commentPart-first, cd-commentPart-last and cd-commentPart, and
\* data-comment-id
addAttributes(tree, elements, id, anchor) ==
  LET first == elements[1].startIndex
      last == elements[Len(elements)].startIndex
      own == {elements[k].startIndex : k \in 1..Len(elements)}
  IN [i \in 1..Len(tree) |->
        IF i \notin own THEN tree[i]
        ELSE [classList |-> tree[i].classList \cup {"cd-commentPart"}
                              \cup (IF i = first THEN {"cd-commentPart-first"} ELSE {})
                              \cup (IF i = last THEN {"cd-commentPart-last"} ELSE {}),
              id |-> IF i = first /\ anchor # << >> /\ tree[i].id = << >>
                     THEN anchor ELSE tree[i].id,
              dataCommentId |-> id]]

\* the constructor from this.parts = ... on (lines 105-166), parts0 being what
\* the parser collected: [threw, comment]
constructFromParts(parts0, signature, id, g, tree) ==
    LET elements0 == [i \in 1..Len(parts0) |-> parts0[i].node]
        highlightables == SelectSeq(elements0, LAMBDA el : isHighlightable(el, g))
    IN IF Len(highlightables) = 0
       THEN [threw |-> "CdError", tree |-> tree]
       ELSE
         LET level == setLevels(elements0, highlightables)
             startsWithHeading == parts0[1].isHeading
             parts == IF startsWithHeading THEN spliceHeading(parts0, level) ELSE parts0
             elements == IF startsWithHeading THEN spliceHeading(elements0, level)
                         ELSE elements0
             opening == parts[1].isHeading
         IN [threw |-> "none",
             tree |-> addAttributes(tree, elements0, id, signature.anchor),
             comment |->
               [id |-> id,
                date |-> signature.date,
                timestamp |-> signature.timestampText,
                authorName |-> signature.authorName,
                own |-> (signature.authorName = g.CURRENT_USER_NAME),
                anchor |-> signature.anchor,
                isUnsigned |-> signature.isUnsigned,
                parts |-> parts,
                elements |-> elements,
                highlightables |-> highlightables,
                level |-> level,
                followsHeading |-> IF startsWithHeading THEN TRUE ELSE TRUE,
                isOpeningSection |-> opening,
                openingSectionOfLevel |->
                  IF opening THEN headingLevelMatch(parts[1].node.tagName) ELSE NoNumber]]

\* new CommentSkeleton(parser, signature): [threw, comment]
CommentSkeleton(dom, signature, signatureIndex, cdComments, g, tree) ==
  IF dom[signature.element].throws # "none"
  THEN [threw |-> dom[signature.element].throws, tree |-> tree]
  ELSE constructFromParts(resolveParts(dom, signature.element), signature,
                          CommentId(cdComments, signatureIndex), g, tree)

\* getSection() searching cd.sections from its start
getSection_First(comment, cdSections) ==
  LET holders == {i \in 1..Len(cdSections) : comment.id \in cdSections[i].comments}
  IN IF holders = {} THEN << >>
     ELSE <<cdSections[CHOOSE i \in holders : \A j \in holders : i <= j]>>

\* getSection(): cd.sections.slice().reverse().find(section =>
\* section.comments.includes(this)) || null; << >> stands for null, <<section>>
\* for a section
getSection(comment, cdSections) ==
  LET reversed == reverse(cdSections)
      holders == {i \in 1..Len(reversed) : comment.id \in reversed[i].comments}
  IN IF holders = {} THEN << >>
     ELSE <<reversed[CHOOSE i \in holders : \A j \in holders : i <= j]>>

\* cd.sections once getSection() has returned: reverse() turns around the copy
\* that slice() made, so cd.sections itself stays as it was
sectionsAfterGetSection(cdSections) == cdSections

\* the accessors that the class declares with a getter only (get section(),
\* get sourcePage()): in module code an assignment to one of them throws TypeError
GetterOnlyAccessors == {"section", "sourcePage"}

\* getChildren() that takes the comments one level deeper wherever they stand
getChildren_AnyPosition(comment, cdComments) ==
  {k \in 1..Len(cdComments) :
     /\ cdComments[k].id # comment.id
     /\ cdComments[k].level = comment.level + 1}

\* getChildren() (not in the sources; spec.md 4.5): the later comments one level
\* deeper whose nearest preceding comment at this comment's level is this one
getChildren(comment, cdComments) ==
  {k \in 1..Len(cdComments) :
     /\ cdComments[k].id > comment.id
     /\ cdComments[k].level = comment.level + 1
     /\ \A j \in 1..Len(cdComments) :
          (cdComments[j].id > comment.id /\ cdComments[j].id < cdComments[k].id)
            => cdComments[j].level # comment.level}

(***************************************************************************)
(* SectionSkeleton (not in the sources; spec.md 3, 4.4)                    *)
(***************************************************************************)
HeadingLevel(el) == CHOOSE n \in 1..6 : el.tagName = <<"H1", "H2", "H3", "H4", "H5", "H6">>[n]

\* the position where the section opened by the heading at h is closed: the
\* next heading of the same or a smaller depth, or the end of the page
sectionEnd(dom, h) ==
  LET closers == {i \in (h + 1)..Len(dom) :
                    IsHeadingElement(dom[i]) /\ HeadingLevel(dom[i]) <= HeadingLevel(dom[h])}
  IN IF closers = {} THEN Len(dom) + 1 ELSE CHOOSE i \in closers : \A j \in closers : i <= j

\* new SectionSkeleton(parser, heading): [threw, section]
SectionSkeleton(dom, h, cdSections, cdComments) ==
  IF dom[h].throws # "none"
  THEN [threw |-> dom[h].throws]
  ELSE [threw |-> "none",
        section |->
          [id |-> Len(cdSections),
           headline |-> dom[h].headline,
           anchor |-> <<dom[h].headline,
                        1 + Cardinality({i \in 1..Len(cdSections) :
                                           cdSections[i].headline = dom[h].headline})>>,
           level |-> HeadingLevel(dom[h]),
           comments |-> {cdComments[k].id : k \in
                          {k \in 1..Len(cdComments) :
                             /\ Last(cdComments[k].elements).startIndex > h
                             /\ Last(cdComments[k].elements).startIndex < sectionEnd(dom, h)}}]]

(***************************************************************************)
(* Worker: parse() (src/src/js/modal.js 1299-1385)                         *)
(***************************************************************************)
\* parse() without the reset of cd.comments
resetComments_Missing(cdComments) == cdComments

\* cd.comments = [] at the start of a parse
resetComments(cdComments) == << >>

\* cd.sections = [] at the start of a parse
resetSections(cdSections) == << >>

\* a catch block that logs whatever it catches
isLogged_Everything(e) == TRUE

\* catch (e) { if (!(e instanceof CdError)) console.error(e); }
isLogged(e) == e # "CdError"

\* the try/catch around a construction whose outcome is r: the item is pushed,
\* or the exception is caught and, if it is to be logged, logged
pushOrCatch(acc, list, about, at, r) ==
  IF r.threw = "none"
  THEN IF r[about].id # NoNumber
       THEN [acc EXCEPT ![list] = Append(@, r[about])]
       ELSE acc
  ELSE IF isLogged(r.threw)
       THEN [acc EXCEPT !.logged = Append(@, [about |-> about, at |-> at,
                                              error |-> r.threw])]
       ELSE acc

\* one turn of signatures.forEach(...), r being the outcome of the construction:
\* the tree is as the constructor left it, whether it threw or not
commentTurn(acc, at, r) ==
  pushOrCatch([acc EXCEPT !.tree = r.tree], "comments", "comment", at, r)

\* signatures.forEach(...): acc = [comments, logged, tree]
RECURSIVE commentsLoop(_, _, _, _, _)
commentsLoop(dom, signatures, g, i, acc) ==
  IF i > Len(signatures) THEN acc
  ELSE commentsLoop(dom, signatures, g, i + 1,
         commentTurn(acc, signatures[i].element,
                     CommentSkeleton(dom, signatures[i], i, acc.comments, g, acc.tree)))

\* parser.findHeadings().forEach(...): acc = [sections, logged]
RECURSIVE sectionsLoop(_, _, _, _, _)
sectionsLoop(dom, headings, cdComments, i, acc) ==
  IF i > Len(headings) THEN acc
  ELSE sectionsLoop(dom, headings, cdComments, i + 1,
         pushOrCatch(acc, "sections", "section", headings[i],
                     SectionSkeleton(dom, headings[i], acc.sections, cdComments)))

\* a reply pass that forgets to delete the elements
DeletedProps_KeepElements == {"parser", "parts", "highlightables", "addAttributes",
                              "setLevels", "getSection", "cachedSection", "getChildren"}

\* the properties deleted from a comment before it is posted
DeletedProps == {"parser", "elements", "parts", "highlightables", "addAttributes",
                 "setLevels", "getSection", "cachedSection", "getChildren"}

\* reply.targetComment = comment, for every reply of the comment at index i
setTargets(comments, i) ==
  [k \in 1..Len(comments) |->
     IF k \in getChildren(comments[i], comments)
     THEN SetProp(comments[k], "targetComment", comments[i].id)
     ELSE comments[k]]

\* the rest of the forEach body with toMe taken from the reply's own flag
stripComment_OwnFlag(comments, i) ==
  LET comment == comments[i]
      withTarget ==
        IF "targetComment" \in DOMAIN comment
        THEN DeleteProps(
               SetProp(SetProp(comment, "targetCommentAuthorName",
                               comments[comment.targetComment + 1].authorName),
                       "toMe", comment.own),
               {"targetComment"})
        ELSE comment
  IN DeleteProps(withTarget, DeletedProps)

\* the rest of the forEach body for the comment at index i, once its section
\* has been dealt with
stripComment(comments, i) ==
  LET comment == comments[i]
      withTarget ==
        IF "targetComment" \in DOMAIN comment
        THEN DeleteProps(
               SetProp(SetProp(comment, "targetCommentAuthorName",
                               comments[comment.targetComment + 1].authorName),
                       "toMe", comments[comment.targetComment + 1].own),
               {"targetComment"})
        ELSE comment
  IN DeleteProps(withTarget, DeletedProps)

\* cd.comments.forEach(...) of "identifying replies": [comments, sections, threw]
RECURSIVE repliesLoop(_, _, _)
repliesLoop(comments, cdSections, i) ==
  IF i > Len(comments) THEN [comments |-> comments, sections |-> cdSections, threw |-> "none"]
  ELSE
    LET targeted == setTargets(comments, i)
    IN IF getSection(targeted[i], cdSections) # << >> /\ "section" \in GetterOnlyAccessors
       THEN [comments |-> targeted, sections |-> sectionsAfterGetSection(cdSections),
             threw |-> "TypeError"]
       ELSE repliesLoop([targeted EXCEPT ![i] = stripComment(targeted, i)],
                        sectionsAfterGetSection(cdSections), i + 1)

\* a response that also carries the sections
parseResponse_WithSections(cdComments, cdSections) ==
  [type |-> "parse", comments |-> cdComments, sections |-> cdSections]

\* postMessage({ type: 'parse', comments: cd.comments })
parseResponse(cdComments, cdSections) == [type |-> "parse", comments |-> cdComments]

\* a parse that posts its response twice
postMessageCalls_Twice(cdComments, cdSections) ==
  <<parseResponse(cdComments, cdSections), parseResponse(cdComments, cdSections)>>

\* the postMessage calls of a parse that reaches its end
postMessageCalls(cdComments, cdSections) == <<parseResponse(cdComments, cdSections)>>

\* the end of parse() (lines 1373-1385), r being the outcome of the reply pass:
\* the worker's state and outputs after the run
parseEnd(registry, built, s, r) ==
  [comments |-> r.comments,
   sections |-> r.sections,
   registry |-> registry,
   built |-> built,
   tree |-> s.tree,
   logged |-> s.logged,
   threw |-> r.threw,
   posted |-> IF r.threw = "none" THEN postMessageCalls(r.comments, r.sections)
              ELSE << >>]

\* parse() from the reply pass on (lines 1344-1385), s being the outcome of the
\* headings loop
parseReplies(registry, built, s) ==
  parseEnd(registry, built, s, repliesLoop(built, s.sections, 1))

\* parse() from the headings loop on (lines 1330-1385), c being the outcome of
\* the signatures loop
parseSections(dom, cdSections, registry, c) ==
  parseReplies(registry, c.comments,
               sectionsLoop(dom, findHeadings(dom), c.comments, 1,
                            [sections |-> resetSections(cdSections), logged |-> c.logged,
                             tree |-> c.tree]))

\* parse() from the signatures loop on (lines 1314-1385), found being what the
\* parser found
parseSignatures(dom, g, cdComments, cdSections, found) ==
  parseSections(dom, cdSections, found.registry,
                commentsLoop(dom, found.signatures, g, 1,
                             [comments |-> resetComments(cdComments), logged |-> << >>,
                              tree |-> Document(dom)]))

\* parse(): the worker's state and outputs after the run
parse(dom, g, cdComments, cdSections, registry) ==
  parseSignatures(dom, g, cdComments, cdSections,
                  findSignatures(dom, resetCommentAnchors(registry)))

(***************************************************************************)
(* State                                                                   *)
(***************************************************************************)
VARIABLES
  pageText,        \* the page on the server, as markup
  cdComments,      \* worker: cd.comments
  cdSections,      \* worker: cd.sections
  cdG,             \* worker: cd.g
  commentAnchors,  \* worker: the anchors registered by timestamp.js
  alarmTimeout,    \* worker: alarmTimeout, as the interval of the timeout it refers to
                   \* while that timeout is pending, NoNumber otherwise
  timers,          \* worker: the pending timeouts (their intervals), oldest first
  firstRun,        \* worker: firstRun
  request,         \* the last parse request the worker handled
  built,           \* cd.comments at the end of the comment loop of that parse
  rootElement,     \* worker: cd.g.rootElement, as the attributes of its elements
  posted,          \* messages posted by the last worker callback
  logged,          \* console.error entries of the last worker callback
  threw,           \* exception that escaped the last worker callback
  reparsed,        \* the worker had handled a parse request before the last one
  handled,         \* what the last worker callback handled
  cleared,         \* how many pending timeouts the last worker callback cancelled
  revisions,             \* server: the revisions saved since the page was loaded
  toWorker,              \* messages posted by the window, not yet handled by the worker
  toWindow,              \* events from the worker, not yet dispatched in the window
  documentHidden,        \* window: document.hidden
  isBackgroundCheckArranged,
  visibilityCallbacks,   \* window: registered visibilitychange callbacks of checkForNewComments
  checks,                \* window: runs of checkForNewComments suspended at an await
  newRevisions,          \* window: newRevisions
  wgRevisionId,          \* window: mw.config.get('wgRevisionId')
  windowEvent,           \* window: the last event of the worker object and whether a
                         \* callback of the window handled it
  pageComments,          \* window: cd.comments of the loaded page, as anchor and newness
  handlers,              \* window: runs of the parse branch of onMessageFromWorker
                         \* suspended at an await
  refreshButton,         \* window: the text of $refreshButton
  relevantNewCommentAnchor,  \* window: an anchor, <<Undefined>> or <<Null>>
  notifiedAbout,         \* window: notifiedAbout, as the anchors of its comments
  lastFirstTimeSeenCommentId,  \* window: a comment id, NoNumber for null
  selected,              \* history: the anchors that handlers put into notifyAbout since
                         \* the last reset, in the order of selection
  parsing,               \* worker: a parse in the course of its loops: the text, cd.comments
                         \* and cd.sections so far, the headings dealt with
  cachedSection,         \* worker: #cachedSection of every comment of that parse
  thisPageVisits,        \* window: the visits of the page (cd.g.thisPageVisits), unix times
  visitsCall,            \* the last call of processVisits: its arguments, the visits it
                         \* received and the time it ran at
  autoScrollInProgress   \* window: cd.g.autoScrollInProgress

workerVars == <<cdComments, cdSections, cdG, commentAnchors, alarmTimeout, timers, firstRun,
                request, built, rootElement, posted, logged, threw, reparsed, handled, cleared>>

panelVars == <<pageComments, handlers, refreshButton, relevantNewCommentAnchor, notifiedAbout,
               lastFirstTimeSeenCommentId, selected>>

windowVars == <<revisions, toWorker, toWindow, documentHidden, isBackgroundCheckArranged,
                visibilityCallbacks, checks, newRevisions, wgRevisionId, windowEvent,
                panelVars>>

accessorVars == <<parsing, cachedSection>>

visitVars == <<thisPageVisits, visitsCall>>

scrollVars == <<autoScrollInProgress>>

vars == <<pageText, workerVars, windowVars, accessorVars, visitVars, scrollVars>>

NoRequest == [type |-> "none"]

WorkerInit ==
  /\ cdComments = << >>
  /\ cdSections = << >>
  /\ cdG = [k \in {} |-> Undefined]
  /\ commentAnchors = << >>
  /\ alarmTimeout = NoNumber
  /\ timers = << >>
  /\ firstRun = TRUE
  /\ request = NoRequest
  /\ built = << >>
  /\ rootElement = << >>
  /\ posted = << >>
  /\ logged = << >>
  /\ threw = "none"
  /\ reparsed = FALSE
  /\ handled = "none"
  /\ cleared = 0
  /\ parsing = [text |-> << >>, comments |-> << >>, sections |-> << >>, headings |-> 0]
  /\ cachedSection = << >>
  /\ thisPageVisits = << >>
  /\ visitsCall = [made |-> FALSE]
  /\ autoScrollInProgress = FALSE

\* the module variables of navPanel.js as declared (lines 26-31), the refresh
\* button without a count
PanelDeclared ==
  /\ handlers = << >>
  /\ refreshButton = ""
  /\ relevantNewCommentAnchor = <<Undefined>>
  /\ notifiedAbout = << >>
  /\ lastFirstTimeSeenCommentId = NoNumber
  /\ selected = << >>

\* the state of the window before the navigation panel is mounted
WindowIdle ==
  /\ pageComments = << >>
  /\ PanelDeclared
  /\ revisions = << >>
  /\ toWorker = << >>
  /\ toWindow = << >>
  /\ documentHidden = FALSE
  /\ isBackgroundCheckArranged = FALSE
  /\ visibilityCallbacks = 0
  /\ checks = << >>
  /\ newRevisions = << >>
  /\ wgRevisionId = 0
  /\ windowEvent = [type |-> "none", handled |-> FALSE]

Init ==
  /\ pageText = << >>
  /\ WorkerInit
  /\ WindowIdle

(***************************************************************************)
(* Worker callbacks (src/src/js/modal.js 1279-1292, 1393-1445)             *)
(***************************************************************************)
\* clearTimeout(alarmTimeout): the timeout that the variable refers to, which is
\* the one created last, is cancelled if it is still pending
clearTimeout(pending, handle) ==
  IF handle # NoNumber THEN SubSeq(pending, 1, Len(pending) - 1) ELSE pending

\* a setAlarm that arms the new timeout and leaves the old one alone
setAlarm_NoClear(pending, handle, interval) == Append(pending, interval)

\* setAlarm(interval): clearTimeout(alarmTimeout); alarmTimeout = setTimeout(...)
setAlarm(pending, handle, interval) == Append(clearTimeout(pending, handle), interval)

\* a removeAlarm that cancels nothing
removeAlarm_Nothing(pending, handle) == pending

\* message.type === 'removeAlarm': clearTimeout(alarmTimeout)
removeAlarm(pending, handle) == clearTimeout(pending, handle)

\* a dispatch in which a parse request cancels the alarm as well
timersAfter_ParseClears(message, pending, handle) ==
  IF message.type = "setAlarm" THEN setAlarm(pending, handle, message.interval)
  ELSE clearTimeout(pending, handle)

\* the pending timeouts after the two alarm branches of onMessageFromWindow:
\* if (message.type === 'setAlarm') ...; if (message.type === 'removeAlarm') ...
timersAfter(message, pending, handle) ==
  IF message.type = "setAlarm" THEN setAlarm(pending, handle, message.interval)
  ELSE IF message.type = "removeAlarm" THEN removeAlarm(pending, handle)
  ELSE pending

\* onMessageFromWindow(e) with e.data = message
onMessageFromWindow(message) ==
  /\ handled' = message.type
  /\ firstRun' = FALSE
  /\ alarmTimeout' = IF message.type = "setAlarm" THEN message.interval
                     ELSE IF message.type = "removeAlarm" THEN NoNumber
                     ELSE alarmTimeout
  /\ timers' = timersAfter(message, timers, alarmTimeout)
  /\ cleared' = IF message.type \in {"setAlarm", "removeAlarm"}
                THEN Len(timers) - Len(clearTimeout(timers, alarmTimeout))
                ELSE 0
  /\ IF message.type = "parse"
     THEN \E g \in {ObjectAssign(cdG, message.g)} :
          \E r \in {parse(parseDOM(message.text), g, cdComments, cdSections, commentAnchors)} :
             /\ cdG' = g
             /\ cdComments' = r.comments
             /\ cdSections' = r.sections
             /\ commentAnchors' = r.registry
             /\ request' = message
             /\ reparsed' = (request # NoRequest)
             /\ built' = r.built
             /\ rootElement' = r.tree
             /\ posted' = r.posted
             /\ logged' = r.logged
             /\ threw' = r.threw
     ELSE /\ UNCHANGED <<cdG, cdComments, cdSections, commentAnchors, request, built,
                       rootElement, reparsed>>
          /\ posted' = << >>
          /\ logged' = << >>
          /\ threw' = "none"

\* the callback that setAlarm() hands to setTimeout
AlarmCallback ==
  /\ \E k \in 1..Len(timers) :
       /\ timers' = SubSeq(timers, 1, k - 1) \o SubSeq(timers, k + 1, Len(timers))
       /\ alarmTimeout' = IF k = Len(timers) THEN NoNumber ELSE alarmTimeout
  /\ handled' = "alarm"
  /\ cleared' = 0
  /\ posted' = <<[type |-> "wakeUp"]>>
  /\ logged' = << >>
  /\ threw' = "none"
  /\ UNCHANGED <<cdComments, cdSections, cdG, commentAnchors, firstRun, request, built,
                 rootElement, reparsed>>

(***************************************************************************)
(* Specification of the worker, driven by any window                       *)
(***************************************************************************)
CHECK_FOR_NEW_COMMENTS_INTERVAL == 15

BACKGROUND_CHECK_FOR_NEW_COMMENTS_INTERVAL == 300

Intervals == {CHECK_FOR_NEW_COMMENTS_INTERVAL * 1000,
              BACKGROUND_CHECK_FOR_NEW_COMMENTS_INTERVAL * 1000}

\* somebody saves an edit that appends one block to the page
Edit ==
  /\ Len(pageText) < MaxItems
  /\ \E kind \in ElementKinds : pageText' = Append(pageText, kind)
  /\ UNCHANGED <<workerVars, windowVars, accessorVars, visitVars, scrollVars>>

ReceiveParse ==
  /\ \E g \in Globals : onMessageFromWindow([type |-> "parse", text |-> pageText, g |-> g])
  /\ UNCHANGED <<pageText, windowVars, accessorVars, visitVars, scrollVars>>

ReceiveSetAlarm ==
  /\ \E interval \in Intervals : onMessageFromWindow([type |-> "setAlarm", interval |-> interval])
  /\ UNCHANGED <<pageText, windowVars, accessorVars, visitVars, scrollVars>>

ReceiveRemoveAlarm ==
  /\ onMessageFromWindow([type |-> "removeAlarm"])
  /\ UNCHANGED <<pageText, windowVars, accessorVars, visitVars, scrollVars>>

AlarmFires ==
  /\ AlarmCallback
  /\ UNCHANGED <<pageText, windowVars, accessorVars, visitVars, scrollVars>>

\* the page is edited and the worker is asked to parse it, again and again
Next ==
  \/ Edit
  \/ ReceiveParse

Spec == Init /\ [][Next]_vars

\* somebody saves an edit that appends one block of a thread to the page
EditThread ==
  /\ Len(pageText) < MaxItems
  /\ \E kind \in ThreadKinds : pageText' = Append(pageText, kind)
  /\ UNCHANGED <<workerVars, windowVars, accessorVars, visitVars, scrollVars>>

\* threads grow and the worker is asked to parse them, again and again
ThreadNext ==
  \/ EditThread
  \/ ReceiveParse

ThreadSpec == Init /\ [][ThreadNext]_vars

\* an edit that appends bare text, whitespace, a paragraph, a list item or a
\* heading
EditParts ==
  /\ Len(pageText) < MaxItems
  /\ \E kind \in PartKinds : pageText' = Append(pageText, kind)
  /\ UNCHANGED <<workerVars, windowVars, accessorVars, visitVars, scrollVars>>

\* pages of such markup grow and the worker is asked to parse them
PartsNext ==
  \/ EditParts
  \/ ReceiveParse

PartsSpec == Init /\ [][PartsNext]_vars

\* longest page for which every callback of the worker is explored
MaxShortPage == 2

\* an edit that appends one block to a page that is still short
EditShort ==
  /\ Len(pageText) < MaxShortPage
  /\ Edit

\* every callback of the worker, in any order
WorkerNext ==
  \/ EditShort
  \/ ReceiveParse
  \/ ReceiveSetAlarm
  \/ ReceiveRemoveAlarm
  \/ AlarmFires

WorkerSpec == Init /\ [][WorkerNext]_vars

(***************************************************************************)
(* Window: polling for new comments (src/src/js/navPanel.js 40-202,        *)
(* 555-558, 660-668)                                                       *)
(***************************************************************************)
\* most events the window may have posted to the worker, or the worker to the
\* window, without the other side having handled them
MaxQueue == 2

\* most runs of checkForNewComments suspended at an await at the same time
MaxChecks == 2

\* most revisions saved while the page is open
MaxRevisions == 1

\* most visibilitychange callbacks registered at the same time
MaxCallbacks == 2

\* cd.config.bytesToDeemComment (config/default.js is not in the sources)
bytesToDeemComment == 50

\* the pages that may be open when the navigation panel is mounted
LoadedPages == {<< >>, <<"h2">>}

\* the values of cd.g that this window sends
WindowGlobals == [CURRENT_USER_NAME |-> "Alice", UNHIGHLIGHTABLE_ELEMENTS_CLASSES |-> {}]

\* edits: a signed reply of 120 bytes, or a minor fix of one byte
EditKinds == {"reply", "minor"}

\* edits that fail one condition of the filter each: a reply, a small edit, an
\* edit flagged as minor, and an edit of a comment, the last three of 120 bytes
\* in existing comments
PollEditKinds == {"reply", "small", "flagged", "commentEdit"}

\* most messages in the queues, suspended checks and registered callbacks
\* together
MaxPending == 2

\* most runs of the parse branch of onMessageFromWorker suspended at a time
MaxHandlers == 2

\* most revisions saved while the panel is watched
MaxPanelRevisions == 2

\* the pages that the panel is mounted on: a comment of the current user with
\* a reply
PanelLoadedPages == {<<"ps", "dds">>}

\* the edits saved while the panel is watched
PanelEditKinds == {"dds", "removal", "longer"}

Abs(n) == IF n < 0 THEN 0 - n ELSE n

setAlarmMessage(interval) == [type |-> "setAlarm", interval |-> interval]

removeAlarmMessage == [type |-> "removeAlarm"]

parseMessage(text) == [type |-> "parse", text |-> text, g |-> WindowGlobals]

\* the revision that was current when the page was loaded, then the saved ones
ServerRevisions ==
  <<[revid |-> 0, minor |-> FALSE, size |-> 0, comment |-> ""]>> \o revisions

\* action=query&prop=revisions&rvdir=newer&rvstartid=...: the revisions from
\* rvstartid on (apiWrappers.js is not in the sources)
queryRevisions(rvstartid) ==
  SelectSeq(ServerRevisions, LAMBDA revision : revision.revid >= rvstartid)

\* isCommentEdit(summary): the summary says that a comment was edited
isCommentEdit(summary) == summary = "Editing reply"

\* a filter that lets minor revisions through
addedNewRevisionsOf_WithMinor(revs) ==
  LET kept == SelectSeq([i \in 1..Len(revs) |-> i],
                        LAMBDA i : /\ i # 1
                                   /\ Abs(revs[i].size - revs[i - 1].size) >= bytesToDeemComment
                                   /\ ~isCommentEdit(revs[i].comment))
  IN [k \in 1..Len(kept) |-> revs[kept[k]].revid]

\* the revids that the filter of checkForNewComments keeps
addedNewRevisionsOf(revs) ==
  LET kept == SelectSeq([i \in 1..Len(revs) |-> i],
                        LAMBDA i : /\ i # 1
                                   /\ ~revs[i].minor
                                   /\ Abs(revs[i].size - revs[i - 1].size) >= bytesToDeemComment
                                   /\ ~isCommentEdit(revs[i].comment))
  IN [k \in 1..Len(kept) |-> revs[kept[k]].revid]

\* removeDuplicates(arr): the first occurrence of every item, in order
removeDuplicates(arr) ==
  LET firsts == SelectSeq([i \in 1..Len(arr) |-> i],
                          LAMBDA i : \A j \in 1..(i - 1) : arr[j] # arr[i])
  IN [k \in 1..Len(firsts) |-> arr[firsts[k]]]

\* the part of the window's state that a run of checkForNewComments changes;
\* out holds the messages it posts to the worker
Window ==
  [hidden |-> documentHidden, arranged |-> isBackgroundCheckArranged,
   callbacks |-> visibilityCallbacks, checks |-> checks, out |-> << >>]

\* checkForNewComments() up to its first await (lines 70-108)
checkForNewComments(w) ==
  IF w.hidden /\ ~w.arranged
  THEN [w EXCEPT !.callbacks = @ + 1,
                 !.out = Append(@, setAlarmMessage(
                           Abs(BACKGROUND_CHECK_FOR_NEW_COMMENTS_INTERVAL
                               - CHECK_FOR_NEW_COMMENTS_INTERVAL) * 1000)),
                 !.arranged = TRUE]
  ELSE [w EXCEPT !.arranged = FALSE,
                 !.checks = Append(@, [pc |-> "revisions",
                                       rvstartid |-> IF Len(newRevisions) > 0
                                                     THEN Last(newRevisions)
                                                     ELSE wgRevisionId,
                                       revisions |-> << >>])]

\* an end of checkForNewComments that sets the alarm only for a hidden tab
scheduleNextCheck_HiddenOnly(w) ==
  IF w.hidden
  THEN [w EXCEPT !.out = Append(@, setAlarmMessage(
                           BACKGROUND_CHECK_FOR_NEW_COMMENTS_INTERVAL * 1000)),
                 !.arranged = TRUE]
  ELSE w

\* the end of checkForNewComments (lines 180-185)
scheduleNextCheck(w) ==
  IF w.hidden
  THEN [w EXCEPT !.out = Append(@, setAlarmMessage(
                           BACKGROUND_CHECK_FOR_NEW_COMMENTS_INTERVAL * 1000)),
                 !.arranged = TRUE]
  ELSE [w EXCEPT !.out = Append(@, setAlarmMessage(CHECK_FOR_NEW_COMMENTS_INTERVAL * 1000))]

\* the visibilitychange callback that checkForNewComments registers (lines 74-79)
visibilityCallback(w) ==
  checkForNewComments([w EXCEPT !.callbacks = @ - 1,
                                !.arranged = FALSE,
                                !.out = Append(@, removeAlarmMessage)])

RECURSIVE runVisibilityCallbacks(_, _)
\* the n callbacks registered when the event is dispatched, one after another
runVisibilityCallbacks(w, n) ==
  IF n = 0 THEN w ELSE runVisibilityCallbacks(visibilityCallback(w), n - 1)

\* w without the suspended run at index i
dropCheck(w, i) ==
  [w EXCEPT !.checks = SubSeq(w.checks, 1, i - 1) \o SubSeq(w.checks, i + 1, Len(w.checks))]

(***************************************************************************)
(* The navigation panel: the parse branch of onMessageFromWorker           *)
(* (src/src/js/navPanel.js 201-487)                                        *)
(***************************************************************************)
\* cd.settings.notificationsBlacklist
notificationsBlacklist == {"Carol"}

\* what getWatchedSections(true) resolves with as thisPageWatchedSections
WatchedSections == {[defined |-> TRUE, headlines |-> {"Topic"}]}

\* thisPageWatchedSections after a rejected getWatchedSections (lines 204-209)
NoWatchedSections == [defined |-> FALSE]

\* cd.comments of the window after the page with this text is loaded and
\* processVisits() has run with one earlier visit that precedes every comment
\* (Comment.js and Parser.js are not in the sources)
loadedComments(text) ==
  LET comments == parse(parseDOM(text), WindowGlobals, << >>, << >>, << >>).built
  IN [i \in 1..Len(comments) |->
        [anchor |-> comments[i].anchor,
         newness |-> IF comments[i].own THEN "new" ELSE "unseen"]]

\* Comment.getCommentByAnchor(anchor), as whether it finds a comment
getCommentByAnchor(comments, anchor) ==
  \E i \in 1..Len(comments) : comments[i].anchor = anchor

\* a filter that counts every comment of the response that has an anchor
newCommentsOf_WithLoaded(comments, loaded) ==
  SelectSeq(comments, LAMBDA comment : "anchor" \in DOMAIN comment)

\* newComments (lines 219-220)
newCommentsOf(comments, loaded) ==
  SelectSeq(comments, LAMBDA comment :
              "anchor" \in DOMAIN comment /\ ~getCommentByAnchor(loaded, comment.anchor))

\* the callback of interestingNewComments (lines 221-244); a comment whose
\* section is watched has a watched ancestor at least in itself
isInteresting(comment, thisPageWatchedSections) ==
  IF comment.own THEN FALSE
  ELSE IF comment.authorName \in notificationsBlacklist THEN FALSE
  ELSE IF "toMe" \in DOMAIN comment /\ comment.toMe THEN TRUE
  ELSE IF ~thisPageWatchedSections.defined THEN FALSE
  ELSE /\ "sectionHeadline" \in DOMAIN comment
       /\ comment.sectionHeadline \in thisPageWatchedSections.headlines

interestingOf(newComments, thisPageWatchedSections) ==
  SelectSeq(newComments, LAMBDA comment : isInteresting(comment, thisPageWatchedSections))

\* comment.sectionAnchor as the window reads it from a record (lines 254-257,
\* 295), << >> for undefined
sectionAnchorOf(comment) ==
  IF "sectionAnchor" \in DOMAIN comment THEN <<comment.sectionAnchor>> ELSE << >>

\* comment.sectionHeadline as the window reads it from a record (lines 236,
\* 264-266), << >> for undefined
sectionHeadlineOf(comment) ==
  IF "sectionHeadline" \in DOMAIN comment THEN <<comment.sectionHeadline>> ELSE << >>

\* relevantNewCommentAnchor after lines 246-250
relevantAnchorAfter(current, newComments, interestingNewComments) ==
  IF Len(interestingNewComments) > 0 THEN interestingNewComments[1].anchor
  ELSE IF Len(newComments) > 0 THEN newComments[1].anchor
  ELSE current

\* the text of the refresh button (line 285)
refreshButtonText(newComments) ==
  IF Len(newComments) > 0 THEN "+" \o ToString(Len(newComments)) ELSE ""

\* notifyAbout (lines 321-323), as the anchors of its comments
notifyAboutOf(interestingNewComments, notified) ==
  LET anchors == [i \in 1..Len(interestingNewComments) |-> interestingNewComments[i].anchor]
  IN SelectSeq(anchors, LAMBDA anchor : ~\E j \in 1..Len(notified) : notified[j] = anchor)

\* the handlers without the one at index i
dropHandler(i) == SubSeq(handlers, 1, i - 1) \o SubSeq(handlers, i + 1, Len(handlers))

\* the handler at index i goes on after its first await with
\* thisPageWatchedSections and runs up to its second await (lines 211-354)
resumeHandler(i, thisPageWatchedSections) ==
  LET newComments == newCommentsOf(handlers[i].comments, pageComments)
      interestingNewComments == interestingOf(newComments, thisPageWatchedSections)
  IN /\ relevantNewCommentAnchor' =
          relevantAnchorAfter(relevantNewCommentAnchor, newComments, interestingNewComments)
     /\ refreshButton' = refreshButtonText(newComments)
     /\ handlers' = [handlers EXCEPT
                       ![i].pc = "genders",
                       ![i].notifyAbout = notifyAboutOf(interestingNewComments, notifiedAbout)]
     /\ selected' = selected \o notifyAboutOf(interestingNewComments, notifiedAbout)

\* the window's state becomes w and its messages join the queue to the worker
Becomes(w) ==
  /\ Len(w.checks) <= MaxChecks
  /\ w.callbacks <= MaxCallbacks
  /\ Len(toWorker) + Len(w.out) <= MaxQueue + 1
  /\ documentHidden' = w.hidden
  /\ isBackgroundCheckArranged' = w.arranged
  /\ visibilityCallbacks' = w.callbacks
  /\ checks' = w.checks
  /\ toWorker' = toWorker \o w.out

\* navPanel.mount(): the worker gets its first alarm (lines 555-558)
Mounted ==
  /\ revisions = << >>
  /\ toWorker = <<setAlarmMessage(CHECK_FOR_NEW_COMMENTS_INTERVAL * 1000)>>
  /\ toWindow = << >>
  /\ documentHidden = FALSE
  /\ isBackgroundCheckArranged = FALSE
  /\ visibilityCallbacks = 0
  /\ checks = << >>
  /\ newRevisions = << >>
  /\ wgRevisionId = 0
  /\ windowEvent = [type |-> "none", handled |-> FALSE]
  /\ pageComments = loadedComments(pageText)
  /\ PanelDeclared

\* somebody saves a revision of the page
SaveRevision ==
  /\ Len(revisions) < MaxRevisions
  /\ \E kind \in EditKinds :
       /\ revisions' = Append(revisions,
            [revid |-> Len(revisions) + 1,
             minor |-> (kind = "minor"),
             size |-> Last(ServerRevisions).size + (IF kind = "minor" THEN 1 ELSE 120),
             comment |-> IF kind = "minor" THEN "typo" ELSE "Reply"])
       /\ pageText' = IF kind = "minor" THEN pageText ELSE Append(pageText, "ps")
  /\ UNCHANGED <<workerVars, toWorker, toWindow, documentHidden, isBackgroundCheckArranged,
                 visibilityCallbacks, checks, newRevisions, wgRevisionId, windowEvent,
                 panelVars, accessorVars, visitVars, scrollVars>>

\* somebody saves a revision of one of the kinds of PollEditKinds
SavePollRevision ==
  /\ Len(revisions) < MaxRevisions
  /\ \E kind \in PollEditKinds :
       /\ revisions' = Append(revisions,
            [revid |-> Len(revisions) + 1,
             minor |-> (kind = "flagged"),
             size |-> Last(ServerRevisions).size + (IF kind = "small" THEN 1 ELSE 120),
             comment |-> IF kind = "commentEdit" THEN "Editing reply" ELSE "Reply"])
       /\ pageText' = IF kind = "reply" THEN Append(pageText, "ps") ELSE pageText
  /\ UNCHANGED <<workerVars, toWorker, toWindow, documentHidden, isBackgroundCheckArranged,
                 visibilityCallbacks, checks, newRevisions, wgRevisionId, windowEvent,
                 panelVars, accessorVars, visitVars, scrollVars>>

\* the tab is hidden or shown; the registered callbacks run
VisibilityChange ==
  /\ Becomes(runVisibilityCallbacks([Window EXCEPT !.hidden = ~documentHidden],
                                    visibilityCallbacks))
  /\ UNCHANGED <<pageText, workerVars, revisions, toWindow, newRevisions, wgRevisionId,
                 windowEvent,
                 panelVars, accessorVars, visitVars, scrollVars>>

\* onMessageFromWorker, message.type === 'wakeUp' (lines 197-199)
ReceiveWakeUp ==
  /\ toWindow # << >>
  /\ Head(toWindow).type = "wakeUp"
  /\ toWindow' = Tail(toWindow)
  /\ windowEvent' = [type |-> "wakeUp", handled |-> TRUE]
  /\ Becomes(checkForNewComments(Window))
  /\ UNCHANGED <<pageText, workerVars, revisions, newRevisions, wgRevisionId,
                 panelVars, accessorVars, visitVars, scrollVars>>

\* onMessageFromWorker, message.type === 'parse', up to the await of
\* getWatchedSections (lines 201-206)
ReceiveParseResponse ==
  /\ toWindow # << >>
  /\ Head(toWindow).type = "parse"
  /\ Len(handlers) < MaxHandlers
  /\ toWindow' = Tail(toWindow)
  /\ windowEvent' = [type |-> "parse", handled |-> TRUE]
  /\ handlers' = Append(handlers, [pc |-> "watched", comments |-> Head(toWindow).comments,
                                   notifyAbout |-> << >>])
  /\ UNCHANGED <<pageText, workerVars, revisions, toWorker, documentHidden,
                 isBackgroundCheckArranged, visibilityCallbacks, checks, newRevisions,
                 wgRevisionId, pageComments, refreshButton, relevantNewCommentAnchor,
                 notifiedAbout, lastFirstTimeSeenCommentId, selected, accessorVars, visitVars, scrollVars>>

\* getWatchedSections(true) resolves for the suspended handler i; the handler
\* runs up to the await of getUserGenders (lines 206, 211-354)
WatchedSectionsArrive ==
  \E i \in 1..Len(handlers) :
    /\ handlers[i].pc = "watched"
    /\ \E thisPageWatchedSections \in WatchedSections :
         resumeHandler(i, thisPageWatchedSections)
    /\ UNCHANGED <<pageText, workerVars, revisions, toWorker, toWindow, documentHidden,
                   isBackgroundCheckArranged, visibilityCallbacks, checks, newRevisions,
                   wgRevisionId, windowEvent, pageComments, notifiedAbout,
                   lastFirstTimeSeenCommentId, accessorVars, visitVars, scrollVars>>

\* getWatchedSections(true) rejects for the suspended handler i: the handler
\* goes on without the watched sections (lines 207-209, 211-354)
WatchedSectionsFail ==
  \E i \in 1..Len(handlers) :
    /\ handlers[i].pc = "watched"
    /\ resumeHandler(i, NoWatchedSections)
    /\ UNCHANGED <<pageText, workerVars, revisions, toWorker, toWindow, documentHidden,
                   isBackgroundCheckArranged, visibilityCallbacks, checks, newRevisions,
                   wgRevisionId, windowEvent, pageComments, notifiedAbout,
                   lastFirstTimeSeenCommentId, accessorVars, visitVars, scrollVars>>

\* getUserGenders resolves for the suspended handler i; the handler shows its
\* notifications and ends (lines 354-487)
GendersArrive ==
  \E i \in 1..Len(handlers) :
    /\ handlers[i].pc = "genders"
    /\ notifiedAbout' = notifiedAbout \o handlers[i].notifyAbout
    /\ handlers' = dropHandler(i)
    /\ UNCHANGED <<pageText, workerVars, revisions, toWorker, toWindow, documentHidden,
                   isBackgroundCheckArranged, visibilityCallbacks, checks, newRevisions,
                   wgRevisionId, windowEvent, pageComments, refreshButton,
                   relevantNewCommentAnchor, lastFirstTimeSeenCommentId, selected, accessorVars, visitVars, scrollVars>>

\* the events of the worker object for which the window sets a callback:
\* cd.g.worker.onmessage = onMessageFromWorker and nothing else (line 556)
WorkerEventHandlers == {"message"}

\* an exception that escaped a worker callback arrives as an error event of the
\* worker object; a callback runs only if one is set for it
ReceiveWorkerError ==
  /\ toWindow # << >>
  /\ Head(toWindow).type = "error"
  /\ toWindow' = Tail(toWindow)
  /\ windowEvent' = [type |-> "error", handled |-> ("error" \in WorkerEventHandlers)]
  /\ UNCHANGED <<pageText, workerVars, revisions, toWorker, documentHidden,
                 isBackgroundCheckArranged, visibilityCallbacks, checks, newRevisions,
                 wgRevisionId,
                 panelVars, accessorVars, visitVars, scrollVars>>

\* the revisions request of the suspended run i is answered (lines 110-138)
RevisionsArrive ==
  \E i \in 1..Len(checks) :
    /\ checks[i].pc = "revisions"
    /\ LET added == addedNewRevisionsOf(queryRevisions(checks[i].rvstartid))
       IN /\ newRevisions' = removeDuplicates(newRevisions \o added)
          /\ IF Len(added) > 0
             THEN Becomes([Window EXCEPT
                            !.checks[i].pc = "pageData",
                            !.checks[i].revisions = queryRevisions(checks[i].rvstartid)])
             ELSE Becomes(scheduleNextCheck(dropCheck(Window, i)))
    /\ UNCHANGED <<pageText, workerVars, revisions, toWindow, wgRevisionId, windowEvent,
                 panelVars, accessorVars, visitVars, scrollVars>>

\* the revisions request of the suspended run i is rejected or brings no data
\* (lines 108, 117-122, 176-178)
RevisionsFail ==
  \E i \in 1..Len(checks) :
    /\ checks[i].pc = "revisions"
    /\ Becomes(scheduleNextCheck(dropCheck(Window, i)))
    /\ UNCHANGED <<pageText, workerVars, revisions, toWindow, newRevisions, wgRevisionId,
                   windowEvent,
                 panelVars, accessorVars, visitVars, scrollVars>>

\* the page text arrives and the parse request is posted (lines 138-174)
PageDataArrives ==
  \E i \in 1..Len(checks) :
    /\ checks[i].pc = "pageData"
    /\ Becomes(scheduleNextCheck(
         [dropCheck(Window, i) EXCEPT !.out = Append(@, parseMessage(pageText))]))
    /\ UNCHANGED <<pageText, workerVars, revisions, toWindow, newRevisions, wgRevisionId,
                   windowEvent,
                 panelVars, accessorVars, visitVars, scrollVars>>

\* getCurrentPageData gives no text or rejects (lines 139-140, 176-178)
PageDataMissing ==
  \E i \in 1..Len(checks) :
    /\ checks[i].pc = "pageData"
    /\ Becomes(scheduleNextCheck(dropCheck(Window, i)))
    /\ UNCHANGED <<pageText, workerVars, revisions, toWindow, newRevisions, wgRevisionId,
                   windowEvent,
                 panelVars, accessorVars, visitVars, scrollVars>>

\* a reset that cancels the alarm and sets none
resetAlarm_RemoveOnly(w) ==
  [w EXCEPT !.out = <<removeAlarmMessage>>, !.arranged = FALSE]

\* the alarm part of navPanel.reset() (lines 666-668)
resetAlarm(w) ==
  [w EXCEPT !.out = <<removeAlarmMessage,
                      setAlarmMessage(CHECK_FOR_NEW_COMMENTS_INTERVAL * 1000)>>,
            !.arranged = FALSE]

\* navPanel.reset(), after the page has been reloaded to its current revision
\* (lines 660-673)
Reset ==
  /\ pageComments' = loadedComments(pageText)
  /\ wgRevisionId' = Len(revisions)
  /\ lastFirstTimeSeenCommentId' = NoNumber
  /\ newRevisions' = << >>
  /\ notifiedAbout' = << >>
  /\ relevantNewCommentAnchor' = <<Null>>
  /\ Becomes(resetAlarm(Window))
  /\ refreshButton' = ""
  /\ selected' = << >>
  /\ UNCHANGED <<pageText, workerVars, revisions, toWindow, windowEvent, handlers, accessorVars, visitVars, scrollVars>>

\* navPanel.goToFirstUnseenComment() and the callback of its scroll, in which
\* the comment is registered as seen (lines 785-799)
GoToFirstUnseenComment ==
  /\ \E i \in 1..Len(pageComments) :
       /\ i > (IF lastFirstTimeSeenCommentId = NoNumber THEN 0
               ELSE lastFirstTimeSeenCommentId)
       /\ pageComments[i].newness = "unseen"
       /\ \A j \in 1..(i - 1) :
            j > (IF lastFirstTimeSeenCommentId = NoNumber THEN 0
                 ELSE lastFirstTimeSeenCommentId)
            => pageComments[j].newness # "unseen"
       /\ lastFirstTimeSeenCommentId' = i - 1
       /\ pageComments' = [pageComments EXCEPT ![i].newness = "new"]
  /\ UNCHANGED <<pageText, workerVars, revisions, toWorker, toWindow, documentHidden,
                 isBackgroundCheckArranged, visibilityCallbacks, checks, newRevisions,
                 wgRevisionId, windowEvent, handlers, refreshButton,
                 relevantNewCommentAnchor, notifiedAbout, selected, accessorVars, visitVars, scrollVars>>

\* the worker takes the next message of the window; what it posts, and an
\* exception that escapes, travel to the window
WorkerReceives ==
  /\ toWorker # << >>
  /\ onMessageFromWindow(Head(toWorker))
  /\ toWorker' = Tail(toWorker)
  /\ toWindow' = toWindow \o posted'
                   \o (IF threw' # "none" THEN <<[type |-> "error"]>> ELSE << >>)
  /\ Len(toWindow') <= MaxQueue
  /\ UNCHANGED <<pageText, revisions, documentHidden, isBackgroundCheckArranged,
                 visibilityCallbacks, checks, newRevisions, wgRevisionId, windowEvent,
                 panelVars, accessorVars, visitVars, scrollVars>>

\* the worker's alarm goes off
WorkerAlarmFires ==
  /\ Len(toWindow) < MaxQueue
  /\ AlarmCallback
  /\ toWindow' = toWindow \o posted'
  /\ UNCHANGED <<pageText, revisions, toWorker, documentHidden, isBackgroundCheckArranged,
                 visibilityCallbacks, checks, newRevisions, wgRevisionId, windowEvent,
                 panelVars, accessorVars, visitVars, scrollVars>>

WindowInit ==
  /\ pageText \in LoadedPages
  /\ WorkerInit
  /\ Mounted

WindowNext ==
  \/ SaveRevision
  \/ VisibilityChange
  \/ Reset
  \/ ReceiveWakeUp
  \/ ReceiveParseResponse
  \/ WatchedSectionsArrive
  \/ WatchedSectionsFail
  \/ GendersArrive
  \/ ReceiveWorkerError
  \/ RevisionsArrive
  \/ RevisionsFail
  \/ PageDataArrives
  \/ PageDataMissing
  \/ WorkerReceives
  \/ WorkerAlarmFires

WindowSpec == WindowInit /\ [][WindowNext]_vars

(***************************************************************************)
(* Specification of polling: the window and the worker with little pending *)
(***************************************************************************)
\* what is pending: messages in both queues, suspended checks and handlers,
\* callbacks
Pending == Len(toWorker) + Len(toWindow) + Len(checks) + Len(handlers) + visibilityCallbacks

Few == Pending <= MaxPending

PollNext ==
  \/ SavePollRevision /\ Few'
  \/ VisibilityChange /\ Few'
  \/ Reset /\ Few'
  \/ ReceiveWakeUp /\ Few'
  \/ ReceiveParseResponse /\ Few'
  \/ WatchedSectionsArrive /\ Few'
  \/ WatchedSectionsFail /\ Few'
  \/ GendersArrive /\ Few'
  \/ ReceiveWorkerError /\ Few'
  \/ RevisionsArrive /\ Few'
  \/ RevisionsFail /\ Few'
  \/ PageDataArrives /\ Few'
  \/ PageDataMissing /\ Few'
  \/ WorkerReceives /\ Few'
  \/ WorkerAlarmFires /\ Few'

PollSpec == WindowInit /\ [][PollNext]_vars

(***************************************************************************)
(* Specification of the navigation panel: a visible tab on a page with     *)
(* comments, replies saved and removed, every request answered             *)
(***************************************************************************)
\* somebody saves a reply to the first comment, the removal of the last comment
\* added since the page was loaded, or a comment made longer without the
\* summary of a comment edit
SavePanelRevision ==
  /\ Len(revisions) < MaxPanelRevisions
  /\ \E kind \in PanelEditKinds :
       /\ CASE kind = "removal" -> Last(ServerRevisions).size >= 120 /\ Len(pageText) > 1
            [] kind = "longer" -> TRUE
            [] OTHER -> Len(pageText) < MaxItems
       /\ revisions' = Append(revisions,
            [revid |-> Len(revisions) + 1,
             minor |-> FALSE,
             size |-> Last(ServerRevisions).size + (IF kind = "removal" THEN 0 - 120 ELSE 120),
             comment |-> IF kind = "removal" THEN "Removal" ELSE "Reply"])
       /\ pageText' = CASE kind = "removal" -> SubSeq(pageText, 1, Len(pageText) - 1)
                        [] kind = "longer" -> pageText
                        [] OTHER -> Append(pageText, kind)
  /\ UNCHANGED <<workerVars, toWorker, toWindow, documentHidden, isBackgroundCheckArranged,
                 visibilityCallbacks, checks, newRevisions, wgRevisionId, windowEvent,
                 panelVars, accessorVars, visitVars, scrollVars>>

\* little is in flight between the window and the worker
Calm == Len(toWorker) + Len(toWindow) + Len(checks) <= MaxPending

\* nothing is in flight between the window and the worker: the alarm goes off
\* and the page is refreshed seconds after the messages of the last check
Quiet == toWorker = << >> /\ toWindow = << >> /\ checks = << >>

PanelInit ==
  /\ pageText \in PanelLoadedPages
  /\ WorkerInit
  /\ Mounted

PanelNext ==
  \/ SavePanelRevision
  \/ Reset /\ Quiet
  \/ GoToFirstUnseenComment
  \/ ReceiveWakeUp /\ Calm'
  \/ RevisionsArrive /\ Calm'
  \/ PageDataArrives /\ Calm'
  \/ WorkerReceives /\ Calm'
  \/ WorkerAlarmFires /\ Quiet
  \/ ReceiveParseResponse
  \/ WatchedSectionsArrive
  \/ WatchedSectionsFail
  \/ GendersArrive

PanelSpec == PanelInit /\ [][PanelNext]_vars

(***************************************************************************)
(* Specification of the section accessor: a parse taken loop by loop, the   *)
(* section property of its comments read at any moment                     *)
(* (src/src/js/CommentSkeleton.js 218-244, src/src/js/modal.js 1314-1343)   *)
(***************************************************************************)
\* #cachedSection as declared (line 18): undefined
NotCached == [cached |-> FALSE]

\* get section() (lines 239-244): the cache after the read and the value
\* returned, << >> for null
sectionGetter(cache, comment, sections) ==
  IF ~cache.cached
  THEN [cache |-> [cached |-> TRUE, value |-> getSection(comment, sections)],
        value |-> getSection(comment, sections)]
  ELSE [cache |-> cache, value |-> cache.value]

\* parse() up to the end of signatures.forEach(...) (lines 1300-1328)
StartParse ==
  /\ \E dom \in {parseDOM(pageText)} :
     \E found \in {findSignatures(dom, << >>)} :
     \E c \in {commentsLoop(dom, found.signatures, WindowGlobals, 1,
                            [comments |-> << >>, logged |-> << >>,
                             tree |-> Document(dom)])} :
       /\ parsing' = [text |-> pageText, comments |-> c.comments, sections |-> << >>,
                      headings |-> 0]
       /\ cachedSection' = [k \in 1..Len(c.comments) |-> NotCached]
  /\ UNCHANGED <<pageText, workerVars, windowVars, visitVars, scrollVars>>

\* one turn of parser.findHeadings().forEach(...) (lines 1330-1343)
CreateSection ==
  /\ \E dom \in {parseDOM(parsing.text)} :
       /\ parsing.headings < Len(findHeadings(dom))
       /\ parsing' =
            [parsing EXCEPT
               !.headings = @ + 1,
               !.sections =
                 pushOrCatch([sections |-> parsing.sections, logged |-> << >>],
                             "sections", "section", findHeadings(dom)[parsing.headings + 1],
                             SectionSkeleton(dom, findHeadings(dom)[parsing.headings + 1],
                                             parsing.sections, parsing.comments)).sections]
  /\ UNCHANGED <<pageText, workerVars, windowVars, cachedSection, visitVars, scrollVars>>

\* the section property of a comment is read
ReadSection ==
  /\ \E k \in 1..Len(parsing.comments) :
       cachedSection' =
         [cachedSection EXCEPT
            ![k] = sectionGetter(@, parsing.comments[k], parsing.sections).cache]
  /\ UNCHANGED <<pageText, workerVars, windowVars, parsing, visitVars, scrollVars>>

AccessorNext ==
  \/ EditThread
  \/ StartParse
  \/ CreateSection
  \/ ReadSection

AccessorSpec == Init /\ [][AccessorNext]_vars

(***************************************************************************)
(* Specification of the visits: processVisits (src/src/js/navPanel.js      *)
(* 581-650) applied to the comments of a page, the visits its request      *)
(* supplies and the time it runs at                                        *)
(***************************************************************************)
MaxTime == 3
MaxVisits == 2
MaxVisitComments == 1

\* cd.g.HIGHLIGHT_NEW_COMMENTS_INTERVAL, in minutes; the times of the model are
\* whole intervals
HIGHLIGHT_NEW_COMMENTS_INTERVAL == 1

\* unix times: the visits are compared as numbers (the strings that
\* thisPageVisits holds are converted by < and > against a number)
Times == {60 * HIGHLIGHT_NEW_COMMENTS_INTERVAL * t : t \in 0..MaxTime}

isAscending(s) == \A i \in 1..(Len(s) - 1) : s[i] <= s[i + 1]

\* what the visits request can supply for a page: the times of earlier visits
StoredVisits ==
  {s \in UNION {[1..n -> Times] : n \in 0..MaxVisits} : isAscending(s)}

visitAnchor(i) == <<"c", i>>

\* the comments of a page before processVisits: with or without a date, the
\* user's own or not
VisitComments ==
  UNION {{[i \in 1..n |-> [anchor |-> visitAnchor(i), date |-> c[i].date,
                           own |-> c[i].own, newness |-> Undefined]] :
            c \in [1..n -> [date : Times \cup {NoNumber}, own : BOOLEAN]]} :
         n \in 1..MaxVisitComments}

\* lines 597-603: the loop runs from the last visit backwards and, at the first
\* one older than the interval, splices off everything before it
cleanup(visits, currentUnixTime) ==
  LET old == {i \in 1..Len(visits) :
                visits[i] < currentUnixTime - 60 * HIGHLIGHT_NEW_COMMENTS_INTERVAL}
  IN IF old = {} THEN visits
     ELSE LET i == CHOOSE k \in old : \A l \in old : l <= k
          IN SubSeq(visits, i, Len(visits))

\* lines 607-624: the newness the filter callback assigns to a comment
newnessOf_OwnUnseen(comment, visits, memorizedUnseenCommentAnchors) ==
  IF comment.date = NoNumber THEN Null
  ELSE IF comment.date > visits[1]
       THEN IF comment.date > Last(visits)
               \/ comment.anchor \in memorizedUnseenCommentAnchors
            THEN "unseen" ELSE "new"
       ELSE Null

newnessOf(comment, visits, memorizedUnseenCommentAnchors) ==
  IF comment.date = NoNumber THEN Null
  ELSE IF comment.date > visits[1]
       THEN IF (comment.date > Last(visits) /\ ~comment.own)
               \/ comment.anchor \in memorizedUnseenCommentAnchors
            THEN "unseen" ELSE "new"
       ELSE Null

\* lines 589-644 after the request has resolved
processVisits(comments, visits, memorizedUnseenCommentAnchors, currentUnixTime) ==
  LET cleaned == cleanup(visits, currentUnixTime)
  IN [comments |->
        IF cleaned # << >>
        THEN [i \in 1..Len(comments) |->
                [comments[i] EXCEPT
                   !.newness = newnessOf(comments[i], cleaned,
                                         memorizedUnseenCommentAnchors)]]
        ELSE comments,
      thisPageVisits |-> Append(cleaned, currentUnixTime)]

\* the page's comments are parsed before the visits are processed
LoadComments ==
  /\ pageComments = << >>
  /\ pageComments' \in VisitComments
  /\ UNCHANGED <<pageText, workerVars, revisions, toWorker, toWindow, documentHidden,
                 isBackgroundCheckArranged, visibilityCallbacks, checks, newRevisions,
                 wgRevisionId, windowEvent, handlers, refreshButton,
                 relevantNewCommentAnchor, notifiedAbout, lastFirstTimeSeenCommentId,
                 selected, accessorVars, visitVars, scrollVars>>

\* one call of processVisits whose request resolves: the first call of a page
\* receives the stored visits, a later one those the call before it saved
ProcessVisits ==
  /\ pageComments # << >>
  /\ \E visits \in (IF visitsCall.made THEN {thisPageVisits} ELSE StoredVisits),
        currentUnixTime \in Times,
        memorized \in SUBSET {pageComments[i].anchor : i \in 1..Len(pageComments)} :
       /\ Len(visits) <= MaxVisits
       /\ visits # << >> => Last(visits) <= currentUnixTime
       /\ LET result == processVisits(pageComments, visits, memorized, currentUnixTime)
          IN /\ pageComments' = result.comments
             /\ thisPageVisits' = result.thisPageVisits
       /\ visitsCall' = [made |-> TRUE, visits |-> visits, memorized |-> memorized,
                         currentUnixTime |-> currentUnixTime]
  /\ UNCHANGED <<pageText, workerVars, revisions, toWorker, toWindow, documentHidden,
                 isBackgroundCheckArranged, visibilityCallbacks, checks, newRevisions,
                 wgRevisionId, windowEvent, handlers, refreshButton,
                 relevantNewCommentAnchor, notifiedAbout, lastFirstTimeSeenCommentId,
                 selected, accessorVars, scrollVars>>

VisitsNext ==
  \/ LoadComments
  \/ ProcessVisits

VisitsSpec == Init /\ [][VisitsNext]_vars

(***************************************************************************)
(* Specification of the scroll to the first unseen comment                 *)
(* (src/src/js/navPanel.js 785-799): the comments as processVisits marked  *)
(* them, the scroll and its callback, comments seen while the user scrolls *)
(* and the reset of a reloaded page                                        *)
(***************************************************************************)
MaxScrollComments == 3

\* cd.comments after processVisits: every comment is unseen, new or neither
MarkedComments ==
  UNION {{[i \in 1..n |-> [anchor |-> visitAnchor(i), newness |-> c[i]]] :
            c \in [1..n -> {Null, "new", "unseen"}]} :
         n \in 1..MaxScrollComments}

\* fill() counts the unseen comments (line 686) and
\* decrementUnseenCommentCount() follows every registration (line 710)
unseenCount(comments) ==
  Cardinality({i \in 1..Len(comments) : comments[i].newness = "unseen"})

\* a search that takes the last unseen comment of the slice
firstUnseenComment_FromEnd(comments, last) ==
  LET start == IF last = NoNumber THEN 0 ELSE last
      found == {i \in (start + 1)..Len(comments) : comments[i].newness = "unseen"}
  IN IF found = {} THEN 0 ELSE CHOOSE i \in found : \A j \in found : j <= i

\* lines 789-791: cd.comments.slice(lastFirstTimeSeenCommentId || 0).find(...),
\* as the position of the comment in cd.comments (its id plus one), 0 if none
firstUnseenComment(comments, last) ==
  LET start == IF last = NoNumber THEN 0 ELSE last
      found == {i \in (start + 1)..Len(comments) : comments[i].newness = "unseen"}
  IN IF found = {} THEN 0 ELSE CHOOSE i \in found : \A j \in found : i <= j

\* the comment a call of goToFirstUnseenComment() scrolls to (lines 786-798)
goToFirstUnseenTarget ==
  IF autoScrollInProgress THEN 0
  ELSE IF unseenCount(pageComments) = 0 THEN 0
  ELSE firstUnseenComment(pageComments, lastFirstTimeSeenCommentId)

\* comment.registerSeen() on the comments from..to: an unseen one becomes new
registerSeen(comments, from, to) ==
  [i \in 1..Len(comments) |->
     IF i \in from..to /\ comments[i].newness = "unseen"
     THEN [comments[i] EXCEPT !.newness = "new"]
     ELSE comments[i]]

\* the page's comments are parsed and processVisits marks them
MarkComments ==
  /\ pageComments = << >>
  /\ pageComments' \in MarkedComments
  /\ UNCHANGED <<pageText, workerVars, revisions, toWorker, toWindow, documentHidden,
                 isBackgroundCheckArranged, visibilityCallbacks, checks, newRevisions,
                 wgRevisionId, windowEvent, handlers, refreshButton,
                 relevantNewCommentAnchor, notifiedAbout, lastFirstTimeSeenCommentId,
                 selected, accessorVars, visitVars, scrollVars>>

\* goToFirstUnseenComment() up to the start of the scroll (lines 786-798 and
\* cdScrollTo, CommentSkeleton.js 304)
StartScrollToFirstUnseen ==
  /\ goToFirstUnseenTarget # 0
  /\ lastFirstTimeSeenCommentId' = goToFirstUnseenTarget - 1
  /\ autoScrollInProgress' = TRUE
  /\ UNCHANGED <<pageText, workerVars, pageComments, revisions, toWorker, toWindow,
                 documentHidden, isBackgroundCheckArranged, visibilityCallbacks, checks,
                 newRevisions, wgRevisionId, windowEvent, handlers, refreshButton,
                 relevantNewCommentAnchor, notifiedAbout, selected, accessorVars,
                 visitVars>>

\* the animation completes (CommentSkeleton.js 321-334): the callback registers
\* the comment and those after it that are in the viewport (lines 792-793)
ScrollCompletes ==
  /\ autoScrollInProgress
  /\ autoScrollInProgress' = FALSE
  /\ \E to \in (lastFirstTimeSeenCommentId + 1)..Len(pageComments) :
       pageComments' = registerSeen(pageComments, lastFirstTimeSeenCommentId + 1, to)
  /\ UNCHANGED <<pageText, workerVars, revisions, toWorker, toWindow, documentHidden,
                 isBackgroundCheckArranged, visibilityCallbacks, checks, newRevisions,
                 wgRevisionId, windowEvent, handlers, refreshButton,
                 relevantNewCommentAnchor, notifiedAbout, lastFirstTimeSeenCommentId,
                 selected, accessorVars, visitVars>>

\* registerSeenComments() after the user has scrolled (lines 828-863): the
\* comments in the viewport are registered
RegisterSeenComments ==
  /\ unseenCount(pageComments) # 0
  /\ ~autoScrollInProgress
  /\ \E from \in 1..Len(pageComments), to \in 1..Len(pageComments) :
       /\ from <= to
       /\ pageComments' = registerSeen(pageComments, from, to)
       /\ pageComments' # pageComments
  /\ UNCHANGED <<pageText, workerVars, revisions, toWorker, toWindow, documentHidden,
                 isBackgroundCheckArranged, visibilityCallbacks, checks, newRevisions,
                 wgRevisionId, windowEvent, handlers, refreshButton,
                 relevantNewCommentAnchor, notifiedAbout, lastFirstTimeSeenCommentId,
                 selected, accessorVars, visitVars, scrollVars>>

\* a page is reloaded, and reset, between scrolls
ScrollNext ==
  \/ MarkComments
  \/ StartScrollToFirstUnseen
  \/ ScrollCompletes
  \/ RegisterSeenComments
  \/ Reset /\ ~autoScrollInProgress
  \/ WorkerReceives

ScrollSpec == Init /\ [][ScrollNext]_vars

(***************************************************************************)
(* Properties of the worker                                                *)
(***************************************************************************)
\* highlightable, as spec.md 4.3 step 7 words it, under the globals in force
Highlightable(el) ==
  /\ el.tagName \notin {"H1", "H2", "H3", "H4", "H5", "H6"}
  /\ el.classList \cap cdG.UNHIGHLIGHTABLE_ELEMENTS_CLASSES = {}
  /\ el.style \notin {"float: left", "float: right", "float:left", "float:right"}

\* positions of the signature elements of the page of the last parse request
SignaturePositions == {e \in 1..Len(request.text) : Element(request.text[e], e).hasSignature}

\* the elements that the boundary resolver collects for the signature at e
CollectedElements(e) ==
  LET dom == parseDOM(request.text)
  IN {dom[j] : j \in firstPartIndex(dom, e)..e}

ParseResponses == {i \in 1..Len(posted) : posted[i].type = "parse"}

\* C1: every comment a parse constructs and every comment it emits has at least
\* one highlightable element, and a signature whose collected elements hold no
\* highlightable element has no record, neither constructed nor emitted.
C1_NonEmptiness ==
  request.type = "parse" =>
    /\ \A i \in 1..Len(built) :
         /\ built[i].highlightables # << >>
         /\ \E j \in 1..Len(built[i].elements) : Highlightable(built[i].elements[j])
    /\ \A m \in ParseResponses : \A k \in 1..Len(posted[m].comments) :
         \E i \in 1..Len(built) :
           /\ built[i].anchor = posted[m].comments[k].anchor
           /\ \E j \in 1..Len(built[i].elements) : Highlightable(built[i].elements[j])
    /\ \A e \in SignaturePositions :
         (\A el \in CollectedElements(e) : ~Highlightable(el))
           => \A i \in 1..Len(built) : Last(built[i].elements).startIndex # e

\* a parse dropped a signature without highlightable elements and emitted another
C1_Witness ==
  /\ request.type = "parse"
  /\ \E e \in SignaturePositions :
       /\ Element(request.text[e], e).throws = "none"
       /\ \A el \in CollectedElements(e) : ~Highlightable(el)
  /\ \E m \in ParseResponses : Len(posted[m].comments) > 0

\* C2 as claimed: the parts of a constructed comment are never empty and every
\* one of them is highlightable.
C2_AllPartsHighlightable ==
  \A i \in 1..Len(built) :
    /\ built[i].parts # << >>
    /\ \A j \in 1..Len(built[i].parts) : Highlightable(built[i].parts[j].node)

\* C2 as amended: the parts of a constructed comment are never empty and at
\* least one of them is highlightable (a heading or a floated or excluded
\* element may stay among the parts), also after the heading-handling step;
\* the highlightables are exactly the highlightable elements of the comment.
C2_SomePartHighlightable ==
  \A i \in 1..Len(built) :
    /\ built[i].parts # << >>
    /\ \E j \in 1..Len(built[i].parts) : Highlightable(built[i].parts[j].node)
    /\ Len(built[i].elements) = Len(built[i].parts)
    /\ \A j \in 1..Len(built[i].parts) : built[i].elements[j] = built[i].parts[j].node
    /\ built[i].highlightables = SelectSeq(built[i].elements, Highlightable)

\* a comment whose heading was cut off by the heading-handling step
C2_Witness ==
  \E i \in 1..Len(built) :
    /\ built[i].level # 0
    /\ built[i].parts[1].node.startIndex > 1
    /\ IsHeadingElement(parseDOM(request.text)[built[i].parts[1].node.startIndex - 1])

\* the signatures of the page of the last parse request whose construction
\* does not throw, in signature order
SurvivingSignatures ==
  LET dom == parseDOM(request.text)
      signatures == findSignatures(dom, << >>).signatures
  IN SelectSeq(signatures,
               LAMBDA sg : /\ dom[sg.element].throws = "none"
                           /\ \E el \in CollectedElements(sg.element) : Highlightable(el))

\* C3: whatever subset of the signatures fails, the parse runs to its end and
\* posts its response, whose comments are exactly those of the signatures whose
\* construction did not throw, in signature order.
C3_ParseSurvivesFailures ==
  handled = "parse" =>
    /\ threw = "none"
    /\ Len(posted) = 1
    /\ posted[1].type = "parse"
    /\ Len(posted[1].comments) = Len(SurvivingSignatures)
    /\ \A k \in 1..Len(SurvivingSignatures) :
         posted[1].comments[k].anchor = SurvivingSignatures[k].anchor

\* C4: the comment at index i of the comment list has id i (0-based), in the
\* list as constructed, in cd.comments after the parse and in the response.
C4_IdsAreIndices ==
  /\ \A i \in 1..Len(built) : built[i].id = i - 1
  /\ \A i \in 1..Len(cdComments) : cdComments[i].id = i - 1
  /\ \A m \in ParseResponses : \A i \in 1..Len(posted[m].comments) :
       posted[m].comments[i].id = i - 1

\* a signature that failed lies between two signatures that gave comments
C4_Witness ==
  /\ request.type = "parse"
  /\ \E i \in 1..Len(built) : i < Len(built) /\
       \E e \in SignaturePositions :
         /\ Last(built[i].elements).startIndex < e
         /\ e < Last(built[i + 1].elements).startIndex
         /\ built[i + 1].id = built[i].id + 1

\* the signatures and headings of the last request whose construction throws
FailedConstructions(errors) ==
  LET dom == parseDOM(request.text)
  IN {e \in 1..Len(dom) :
        \/ dom[e].throws \in errors
        \/ /\ "CdError" \in errors
           /\ dom[e].hasSignature
           /\ dom[e].throws = "none"
           /\ \A el \in CollectedElements(e) : ~Highlightable(el)}

\* C5 as claimed: every comment or section that a parse drops, CdError
\* included, has a log entry.
C5_EveryDropLogged ==
  handled = "parse" =>
      \A e \in FailedConstructions({"CdError", "Error"}) :
        \E i \in 1..Len(logged) : logged[i].at = e

\* C5 as amended: every exception other than CdError raised while a comment or
\* a section is constructed is caught and logged once; a CdError (no
\* highlightable fragment) is caught and the comment dropped without a log entry.
C5_NonCdErrorsLogged ==
  handled = "parse" =>
    /\ \A e \in FailedConstructions({"Error"}) :
         Cardinality({i \in 1..Len(logged) : logged[i].at = e}) = 1
    /\ \A i \in 1..Len(logged) : logged[i].at \in FailedConstructions({"Error"})
    /\ \A e \in FailedConstructions({"CdError", "Error"}) :
         \A i \in 1..Len(built) : Last(built[i].elements).startIndex # e

\* a parse dropped a comment silently, a comment with a log entry and a section
C5_Witness ==
  /\ request.type = "parse"
  /\ FailedConstructions({"CdError"}) # {}
  /\ \E i, j \in 1..Len(logged) : logged[i].about = "comment" /\ logged[j].about = "section"

\* C6: a parse request whose page-wide stages succeed is answered by exactly
\* one 'parse' message, posted after all comments and sections have been
\* processed (it carries the final comment list, stripped of tree references);
\* a callback that handles no parse request posts no 'parse' message.
C6_OneResponsePerRequest ==
  /\ (handled = "parse" /\ threw = "none") =>
       /\ Cardinality(ParseResponses) = 1
       /\ Len(posted) = 1
       /\ posted[1].comments = cdComments
       /\ Len(posted[1].comments) = Len(built)
       /\ \A k \in 1..Len(posted[1].comments) :
            (DOMAIN posted[1].comments[k]) \cap {"parts", "elements", "highlightables",
                                                  "targetComment"} = {}
  /\ handled # "parse" => ParseResponses = {}

\* a parse request for a page with comments and a section has been answered
\* while an alarm is set
C6_Witness ==
  /\ handled = "parse"
  /\ alarmTimeout # NoNumber
  /\ threw = "none"
  /\ Len(posted) = 1
  /\ Len(posted[1].comments) >= 1
  /\ cdSections # << >>

FreshParse ==
  parse(parseDOM(request.text), ObjectAssign([k \in {} |-> Undefined], request.g),
        << >>, << >>, << >>)

\* C8: what a parse leaves and posts depends only on its request: it equals
\* the outcome of the same request on a fresh worker, in comments (count,
\* order, ids, anchors, levels, targets), sections, anchors and globals.
C8_HistoryIndependence ==
  request.type = "parse" =>
    /\ cdComments = FreshParse.comments
    /\ built = FreshParse.built
    /\ cdSections = FreshParse.sections
    /\ commentAnchors = FreshParse.registry
    /\ cdG = request.g
    /\ handled = "parse" =>
         /\ posted = FreshParse.posted
         /\ threw = FreshParse.threw
         /\ logged = FreshParse.logged

\* a worker that had parsed before has parsed a page with two comments of the
\* same author and timestamp
C8_Witness ==
  /\ handled = "parse"
  /\ reparsed
  /\ \E i, j \in 1..Len(cdComments) :
       /\ i # j
       /\ cdComments[i].anchor[1] = cdComments[j].anchor[1]
       /\ cdComments[j].anchor[3] = 2

(***************************************************************************)
(* Properties of the window                                                *)
(***************************************************************************)
\* parse requests that the worker has not taken yet
RequestsPosted == Len(SelectSeq(toWorker, LAMBDA m : m.type = "parse"))

\* responses and failures of parse requests not yet delivered to the window
AnswersUnderway == Len(SelectSeq(toWindow, LAMBDA m : m.type \in {"parse", "error"}))

\* C9: when an exception aborts a parse, the window is informed of the failed
\* attempt and handles it: the failure that reaches the window is handled by
\* one of its callbacks.
C9_FailureHandled ==
  windowEvent.type = "error" => windowEvent.handled

\* C10: the window never posts a parse request while an earlier one is
\* unanswered: at most one parse request is posted or has its answer on the
\* way to the window.
C10_OneRequestInFlight ==
  RequestsPosted + AnswersUnderway <= 1

(***************************************************************************)
(* Properties of the worker's alarm                                        *)
(***************************************************************************)
\* the last worker callback posted a wakeUp message
WakeUpPosted == \E k \in 1..Len(posted) : posted[k].type = "wakeUp"

\* C11: at most one alarm is pending at any time; after a setAlarm the pending
\* alarm is the one of that setAlarm, whatever was pending before; an alarm
\* that fired is no longer pending, so one setAlarm gives at most one wakeUp.
C11_OneAlarmPending ==
  /\ Len(timers) <= 1
  /\ timers # << >> => timers = <<alarmTimeout>>
  /\ handled = "setAlarm" => timers # << >>
  /\ handled = "alarm" => WakeUpPosted /\ Len(posted) = 1 /\ timers = << >>

\* a setAlarm has replaced a pending alarm by the background alarm
C11_Witness ==
  /\ handled = "setAlarm"
  /\ cleared = 1
  /\ timers = <<BACKGROUND_CHECK_FOR_NEW_COMMENTS_INTERVAL * 1000>>

\* the alarm and parse state of the worker: everything but the flag of the
\* first message and the record of the last callback
AlarmAndParseState == <<timers, alarmTimeout, cdComments, cdSections, cdG, commentAnchors>>

\* C12: after a removeAlarm no alarm is pending and no error is raised; a
\* worker callback posts a wakeUp only when an alarm was pending, and an alarm becomes
\* pending only by a setAlarm; a removeAlarm with no alarm pending changes
\* nothing of the alarm and parse state.
C12_RemoveAlarm ==
  [][/\ handled' = "removeAlarm" =>
          /\ timers' = << >>
          /\ threw' = "none"
          /\ posted' = << >>
          /\ timers = << >> => AlarmAndParseState' = AlarmAndParseState
     /\ (WakeUpPosted' /\ workerVars' # workerVars) => timers # << >>
     /\ (timers = << >> /\ timers' # << >>) => handled' = "setAlarm"]_vars

\* a removeAlarm has arrived with no alarm pending, after an earlier one had
\* cancelled or found none either
C12_Witness ==
  /\ handled = "removeAlarm"
  /\ cleared = 0
  /\ ~firstRun
  /\ timers = << >>

\* C13: handling a parse request leaves the alarm as it was: the same timeout
\* pending or none, and the same value of alarmTimeout.
C13_ParseKeepsAlarm ==
  [][handled' = "parse" => /\ timers' = timers
                           /\ alarmTimeout' = alarmTimeout
                           /\ cleared' = 0]_vars

\* a parse request for a page with a comment has been handled while an alarm
\* was pending, and the alarm is still pending
C13_Witness ==
  /\ handled = "parse"
  /\ cdComments # << >>
  /\ timers = <<CHECK_FOR_NEW_COMMENTS_INTERVAL * 1000>>

(***************************************************************************)
(* Properties of the constructed comments                                  *)
(***************************************************************************)
\* the tree of the page of the last parse request
RequestDom == parseDOM(request.text)

\* the first element that the boundary resolver collected for the comment c
FirstCollected(c) ==
  RequestDom[firstPartIndex(RequestDom, Last(c.elements).startIndex)]

\* the number of elements that the boundary resolver collected for the comment c
CollectedCount(c) ==
  Last(c.elements).startIndex - FirstCollected(c).startIndex + 1

\* C14 as claimed: when the collected parts begin with a heading and the level
\* of the comment is 0, the heading is removed from the parts and elements of
\* the comment, and followsHeading stays true.
C14_HeadingCutAtLevelZero ==
  \A i \in 1..Len(built) :
    (IsHeadingElement(FirstCollected(built[i])) /\ built[i].level = 0) =>
      /\ built[i].followsHeading
      /\ built[i].elements[1] # FirstCollected(built[i])
      /\ built[i].parts[1].node # FirstCollected(built[i])

\* C14 as amended: when the collected parts begin with a heading, the heading
\* is removed from the parts and elements of the comment if the level of the
\* comment is not 0 and stays their first item if the level is 0;
\* followsHeading is true in both cases.
C14_HeadingCutBelowLevelZero ==
  \A i \in 1..Len(built) :
    IsHeadingElement(FirstCollected(built[i])) =>
      /\ built[i].followsHeading = TRUE
      /\ built[i].level # 0 =>
           /\ Len(built[i].parts) = CollectedCount(built[i]) - 1
           /\ Len(built[i].elements) = CollectedCount(built[i]) - 1
           /\ \A j \in 1..Len(built[i].parts) :
                /\ built[i].parts[j].node # FirstCollected(built[i])
                /\ built[i].elements[j] # FirstCollected(built[i])
      /\ built[i].level = 0 =>
           /\ Len(built[i].parts) = CollectedCount(built[i])
           /\ Len(built[i].elements) = CollectedCount(built[i])
           /\ built[i].parts[1].node = FirstCollected(built[i])
           /\ built[i].elements[1] = FirstCollected(built[i])

\* a reply of two paragraphs right under a heading lost the heading
C14_Witness ==
  \E i \in 1..Len(built) :
    /\ IsHeadingElement(FirstCollected(built[i]))
    /\ built[i].level # 0
    /\ Len(built[i].parts) = 2
    /\ built[i].followsHeading

\* C15: followsHeading is true for a constructed comment exactly when its
\* collected parts begin with a heading.
C15_FollowsHeadingIffHeading ==
  \A i \in 1..Len(built) :
    built[i].followsHeading = IsHeadingElement(FirstCollected(built[i]))

\* C16: isOpeningSection is true exactly when the first part of the comment is
\* a heading; then the opening-section level is the depth 1..6 of the tag of
\* that heading; otherwise no opening-section level is set.
C16_OpeningSectionLevel ==
  \A i \in 1..Len(built) :
    /\ built[i].isOpeningSection = IsHeadingElement(built[i].parts[1].node)
    /\ built[i].isOpeningSection = built[i].parts[1].isHeading
    /\ built[i].isOpeningSection =>
         /\ built[i].openingSectionOfLevel \in 1..6
         /\ built[i].parts[1].node.tagName
              = <<"H1", "H2", "H3", "H4", "H5", "H6">>[built[i].openingSectionOfLevel]
    /\ ~built[i].isOpeningSection => built[i].openingSectionOfLevel = NoNumber

\* a comment opens a subsection (level 3) and another comment opens nothing
C16_Witness ==
  /\ \E i \in 1..Len(built) :
       built[i].isOpeningSection /\ built[i].openingSectionOfLevel = 3
  /\ \E i \in 1..Len(built) : ~built[i].isOpeningSection

C18_LevelIsMinimum ==
  \A i \in 1..Len(built) :
    /\ built[i].level \in Nat
    /\ built[i].level <= built[i].highlightables[1].levelsUp
    /\ built[i].level <= Last(built[i].highlightables).levelsUp
    /\ built[i].level \in {built[i].highlightables[1].levelsUp,
                           Last(built[i].highlightables).levelsUp}

\* a comment whose first highlightable element is indented and whose last one
\* is not: its level is that of the last one
C18_Witness ==
  \E i \in 1..Len(built) :
    /\ built[i].highlightables[1].levelsUp > Last(built[i].highlightables).levelsUp
    /\ built[i].level = Last(built[i].highlightables).levelsUp

(***************************************************************************)
(* The section of a comment and the comment it replies to                  *)
(***************************************************************************)
\* the positions in cd.sections of the sections whose comments include the
\* comment
Holding(comment) ==
  {i \in 1..Len(cdSections) : comment.id \in cdSections[i].comments}

\* C19: for every comment of a parse, getSection() returns nothing exactly when
\* no section holds the comment, and otherwise returns, of the sections that hold
\* it, the one created last; cd.sections stays in the order of creation
C19_LastCreatedSection ==
  /\ \A k \in 1..Len(built) :
       LET found == getSection(built[k], cdSections)
       IN /\ (found = << >>) <=> (Holding(built[k]) = {})
          /\ found # << >> =>
               /\ \E i \in Holding(built[k]) : cdSections[i] = found[1]
               /\ \A i \in Holding(built[k]) : cdSections[i].id <= found[1].id
  /\ \A i \in 1..Len(cdSections) : cdSections[i].id = i - 1

\* C19 happens: a comment lies in a section and in its subsection, and
\* getSection() returns the subsection; another parse had a comment in no section
C19_Witness ==
  /\ handled = "parse"
  /\ \E k \in 1..Len(built) :
       /\ Cardinality(Holding(built[k])) = 2
       /\ getSection(built[k], cdSections)[1].id = 1
       /\ getSection(built[k], cdSections)[1].level = 3

\* the comments of the response that the last parse posted
Emitted ==
  IF ParseResponses # {} THEN posted[CHOOSE i \in ParseResponses : TRUE].comments ELSE << >>

\* the positions before k of the emitted comments one level above the comment at k
ParentCandidates(k) == {j \in 1..(k - 1) : Emitted[j].level = Emitted[k].level - 1}

\* C20: an emitted comment at a level above 0 that has a comment one level up
\* before it carries the author name and the own flag of the nearest of those;
\* any other emitted comment carries no target; no emitted comment is left with
\* a target assigned after it was processed
C20_ParentIsNearestPreceding ==
  \A k \in 1..Len(Emitted) :
    /\ "targetComment" \notin DOMAIN Emitted[k]
    /\ IF Emitted[k].level > 0 /\ ParentCandidates(k) # {}
       THEN LET parent == CHOOSE j \in ParentCandidates(k) :
                            \A i \in ParentCandidates(k) : i <= j
            IN /\ "targetCommentAuthorName" \in DOMAIN Emitted[k]
               /\ Emitted[k].targetCommentAuthorName = Emitted[parent].authorName
               /\ Emitted[k].toMe = Emitted[parent].own
       ELSE /\ "targetCommentAuthorName" \notin DOMAIN Emitted[k]
            /\ "toMe" \notin DOMAIN Emitted[k]

\* C20 happens: a reply at level 1 follows two comments at level 0 by different
\* authors and targets the nearer one, which itself has no target
C20_Witness ==
  /\ Len(Emitted) = 3
  /\ Emitted[1].level = 0 /\ Emitted[1].authorName = "Alice"
  /\ Emitted[2].level = 0 /\ Emitted[2].authorName = "Carol"
  /\ "targetCommentAuthorName" \notin DOMAIN Emitted[2]
  /\ Emitted[3].level = 1
  /\ Emitted[3].targetCommentAuthorName = "Carol"

\* the position of the parent of the emitted comment at k: the nearest of its
\* candidates
ParentOf(k) == CHOOSE j \in ParentCandidates(k) : \A i \in ParentCandidates(k) : i <= j

\* C21: an emitted comment with a parent names the parent's author, and its
\* toMe is true exactly when that author is the current user of the request; an
\* emitted comment without a parent names no target author and has no true toMe
C21_TargetAuthorAndToMe ==
  \A k \in 1..Len(Emitted) :
    IF ParentCandidates(k) # {}
    THEN /\ Emitted[k].targetCommentAuthorName = Emitted[ParentOf(k)].authorName
         /\ Emitted[k].toMe <=>
              (Emitted[ParentOf(k)].authorName = request.g.CURRENT_USER_NAME)
    ELSE /\ "targetCommentAuthorName" \notin DOMAIN Emitted[k]
         /\ "toMe" \in DOMAIN Emitted[k] => ~Emitted[k].toMe

\* C21 happens: the current user wrote a comment and somebody else replied to it
C21_Witness ==
  /\ Len(Emitted) >= 2
  /\ request.g.CURRENT_USER_NAME = "Alice"
  /\ Emitted[1].authorName = "Alice"
  /\ Emitted[2].authorName = "Bob"
  /\ Emitted[2].targetCommentAuthorName = "Alice"
  /\ Emitted[2].toMe
  /\ ~Emitted[2].own
  /\ "toMe" \notin DOMAIN Emitted[1]

\* the properties of a comment that refer to the tree or to another comment
References == {"parts", "elements", "highlightables", "targetComment"}

\* C22: no comment of a posted parse response has kept its parts, elements or
\* highlightables or the comment it was found to reply to
C22_NoReferencesEmitted ==
  \A i \in ParseResponses : \A k \in 1..Len(posted[i].comments) :
    DOMAIN posted[i].comments[k] \cap References = {}

\* C22 happens: a response carries a comment that was built from two elements
\* and was given a target during the reply pass
C22_Witness ==
  /\ Len(Emitted) = 2
  /\ Len(built) = 2
  /\ Len(built[2].elements) = 2
  /\ References \ {"targetComment"} \subseteq DOMAIN built[2]
  /\ "targetCommentAuthorName" \in DOMAIN Emitted[2]

(***************************************************************************)
(* The attributes that a comment leaves in the tree                        *)
(***************************************************************************)
\* the positions in the tree of the elements of a constructed comment
ElementPositions(comment) ==
  {comment.elements[k].startIndex : k \in 1..Len(comment.elements)}

\* the classes that addAttributes() gives out
CommentPartClasses == {"cd-commentPart", "cd-commentPart-first", "cd-commentPart-last"}

\* C23: after a parse, every element of a constructed comment carries the
\* comment's id, the first of them the class cd-commentPart-first and the last
\* the class cd-commentPart-last; no other element of the tree carries that id,
\* and an element of no comment carries none of the classes
C23_AttributesMatchElements ==
  /\ \A k \in 1..Len(built) :
       /\ \A i \in 1..Len(rootElement) :
            (rootElement[i].dataCommentId = built[k].id) <=> (i \in ElementPositions(built[k]))
       /\ "cd-commentPart-first" \in rootElement[built[k].elements[1].startIndex].classList
       /\ "cd-commentPart-last" \in rootElement[Last(built[k].elements).startIndex].classList
  /\ \A i \in 1..Len(rootElement) :
       (\A k \in 1..Len(built) : i \notin ElementPositions(built[k]))
         => rootElement[i].classList \cap CommentPartClasses = {}

(***************************************************************************)
(* The parts of the comments of a parse                                    *)
(***************************************************************************)
\* C24: among the parts of a constructed comment none lies within another or
\* occurs twice, and no part of one constructed comment is a part of another
C24_PartsDisjoint ==
  /\ \A k \in 1..Len(built) : \A a, b \in 1..Len(built[k].parts) :
       a # b => ~Within(built[k].parts[a].node, built[k].parts[b].node)
  /\ \A k, m \in 1..Len(built) : \A a \in 1..Len(built[k].parts) :
       \A b \in 1..Len(built[m].parts) :
         k # m => built[k].parts[a].node # built[m].parts[b].node

\* C24 happens: a comment was collected as bare text, whitespace and a list item
\* with the list around it, and ends up as the block that wraps the text and the
\* list item
C24_Witness ==
  /\ handled = "parse"
  /\ Len(request.text) = 3
  /\ Len(built) = 1
  /\ Len(built[1].parts) = 2
  /\ built[1].parts[1].node.tagName = "DIV"
  /\ built[1].parts[1].node.contains = {1, 2}
  /\ built[1].parts[2].node = RequestDom[3]
  /\ RequestDom[3].levelsUp = 1

(***************************************************************************)
(* Polling                                                                 *)
(***************************************************************************)
\* the messages that the step has added to the queue to the worker
NewToWorker == SubSeq(toWorker', Len(toWorker) + 1, Len(toWorker'))

\* how many messages of the type the step has added to the queue to the worker
NewOfType(type) == Len(SelectSeq(NewToWorker, LAMBDA m : m.type = type))

\* the runs of checkForNewComments that the step starts: one for a wakeUp taken
\* from the queue, one for every callback that a visibilitychange event runs
RunsStarted ==
  (IF Len(toWindow') < Len(toWindow) /\ Head(toWindow).type = "wakeUp" THEN 1 ELSE 0)
    + (IF documentHidden' # documentHidden THEN visibilityCallbacks ELSE 0)

\* the calls of navPanel.reset() in the step: a removeAlarm that no
\* visibilitychange callback sent
ResetsDone == IF documentHidden' = documentHidden THEN NewOfType("removeAlarm") ELSE 0

\* the alarm is set, or on its way, or a run of checkForNewComments that will
\* set it is under way
PollingAlive ==
  \/ timers # << >>
  \/ \E i \in 1..Len(toWindow) : toWindow[i].type = "wakeUp"
  \/ \E i \in 1..Len(toWorker) : toWorker[i].type = "setAlarm"
  \/ checks # << >>

\* in a step of the window, every run of checkForNewComments that ends, whether
\* it started in the step or was suspended, has sent one setAlarm
EndedRunsSetAlarm ==
  Len(toWorker') >= Len(toWorker) =>
    NewOfType("setAlarm") = RunsStarted - (Len(checks') - Len(checks)) + ResetsDone

\* C25: polling never stops: every run of checkForNewComments sends a setAlarm
\* before it ends, on every path, so that at any time an alarm is pending, a
\* wakeUp or a setAlarm is in a queue, or a run is waiting for an answer
C25_PollingNeverStops == [](PollingAlive) /\ [][EndedRunsSetAlarm]_vars

\* C25 happens: a wakeUp found the tab hidden, the run arranged the background
\* check, and the worker has set the alarm it was sent
C25_Witness ==
  /\ documentHidden
  /\ isBackgroundCheckArranged
  /\ handled = "setAlarm"
  /\ windowEvent.type = "wakeUp"
  /\ timers = <<Abs(BACKGROUND_CHECK_FOR_NEW_COMMENTS_INTERVAL
                     - CHECK_FOR_NEW_COMMENTS_INTERVAL) * 1000>>

\* the revision at position k of the list counts as a new comment: it is not
\* the first of the list, it is not minor, its size differs from that of the
\* revision before it by bytesToDeemComment or more, and its summary does not
\* say that a comment was edited
Qualifies(revs, k) ==
  /\ k > 1
  /\ ~revs[k].minor
  /\ \/ revs[k].size - revs[k - 1].size >= bytesToDeemComment
     \/ revs[k - 1].size - revs[k].size >= bytesToDeemComment
  /\ ~isCommentEdit(revs[k].comment)

\* the step posts one parse request with the text of the page, for a run that
\* had been answered with a qualifying revision and ends in the step
ParseForQualifyingRevision ==
  /\ NewOfType("parse") = 1
  /\ \A k \in 1..Len(NewToWorker) :
       NewToWorker[k].type = "parse" => NewToWorker[k].text = pageText
  /\ \E i \in 1..Len(checks) :
       /\ checks[i].pc = "pageData"
       /\ \E k \in 1..Len(checks[i].revisions) : Qualifies(checks[i].revisions, k)
       /\ checks' = SubSeq(checks, 1, i - 1) \o SubSeq(checks, i + 1, Len(checks))

\* C26: a parse request is posted only by a run of checkForNewComments whose
\* revisions answer held a qualifying revision and which obtained the text of
\* the page; no run asks for the page without such a revision
C26_ParseOnlyForNewRevisions ==
  /\ [](\A i \in 1..Len(checks) :
          checks[i].pc = "pageData" =>
            \E k \in 1..Len(checks[i].revisions) : Qualifies(checks[i].revisions, k))
  /\ [][NewOfType("parse") > 0 => ParseForQualifyingRevision]_vars

\* C26 happens: a reply was saved and the parse request for it is in the queue,
\* behind it the setAlarm of the run
C26_Witness ==
  /\ Len(revisions) = 1
  /\ Qualifies(ServerRevisions, 2)
  /\ Len(toWorker) = 2
  /\ toWorker[1] = parseMessage(pageText)
  /\ toWorker[2].type = "setAlarm"
  /\ checks = << >>

(***************************************************************************)
(* Properties of the navigation panel                                      *)
(***************************************************************************)
\* the step is a call of navPanel.reset(): a removeAlarm is posted while the
\* visibility of the tab stays as it is
ResetStep == documentHidden' = documentHidden /\ NewOfType("removeAlarm") = 1

\* the worker handles a setAlarm with the regular interval right after it
\* handled a removeAlarm
RearmStep ==
  /\ handled = "removeAlarm"
  /\ toWorker # << >>
  /\ Head(toWorker) = setAlarmMessage(CHECK_FOR_NEW_COMMENTS_INTERVAL * 1000)
  /\ toWorker' = Tail(toWorker)

ResetRestores ==
  /\ ResetStep =>
       /\ newRevisions' = << >>
       /\ notifiedAbout' = << >>
       /\ relevantNewCommentAnchor' = <<Null>>
       /\ lastFirstTimeSeenCommentId' = NoNumber
       /\ ~isBackgroundCheckArranged'
       /\ NewToWorker = <<removeAlarmMessage,
                          setAlarmMessage(CHECK_FOR_NEW_COMMENTS_INTERVAL * 1000)>>
  /\ RearmStep =>
       /\ timers' = <<CHECK_FOR_NEW_COMMENTS_INTERVAL * 1000>>
       /\ alarmTimeout' = CHECK_FOR_NEW_COMMENTS_INTERVAL * 1000

\* C27: navPanel.reset() empties newRevisions and notifiedAbout, sets
\* relevantNewCommentAnchor and lastFirstTimeSeenCommentId to null and
\* isBackgroundCheckArranged to false, and posts removeAlarm and then setAlarm
\* with the regular interval; when the worker has handled the two messages it
\* holds one pending timeout, of the regular interval.
C27_ResetRestoresInitialState == [][ResetRestores]_vars

\* the worker has handled the two messages of a reset that followed a parse
\* response and a saved revision
C27_Witness ==
  /\ handled = "setAlarm"
  /\ timers = <<CHECK_FOR_NEW_COMMENTS_INTERVAL * 1000>>
  /\ relevantNewCommentAnchor = <<Null>>
  /\ notifiedAbout = << >>
  /\ newRevisions = << >>
  /\ lastFirstTimeSeenCommentId = NoNumber
  /\ wgRevisionId = Len(revisions)
  /\ Len(revisions) > 0
  /\ windowEvent.type = "parse"
  /\ toWorker = << >>

\* the step takes the suspended handler i from the await of getWatchedSections
\* to the await of getUserGenders
HandlerResumes(i) ==
  /\ handlers[i].pc = "watched"
  /\ Len(handlers') = Len(handlers)
  /\ handlers'[i].pc = "genders"

\* the comments of a response that have an anchor which no comment of the
\* loaded page has, as their positions in the response
NewInResponse(comments) ==
  {k \in 1..Len(comments) :
     /\ "anchor" \in DOMAIN comments[k]
     /\ \A j \in 1..Len(pageComments) : pageComments[j].anchor # comments[k].anchor}

CounterShowsResponse ==
  \A i \in 1..Len(handlers) :
    HandlerResumes(i) =>
      LET N == Cardinality(NewInResponse(handlers[i].comments))
      IN refreshButton' = IF N = 0 THEN "" ELSE "+" \o ToString(N)

\* C28: when the handler of a parse response has updated the panel, the refresh
\* button shows "+N", N being the number of comments of that response that have
\* an anchor and are not on the loaded page, and no text when N = 0, whatever
\* it showed for earlier responses.
C28_CounterOfLatestResponse == [][CounterShowsResponse]_vars

\* the handler of a second response has ended: the reply that the first
\* response brought was removed again, and the button shows no count
C28_Witness ==
  /\ Len(revisions) = 2
  /\ pageText = <<"ps", "dds">>
  /\ wgRevisionId = 0
  /\ Len(relevantNewCommentAnchor) = 3
  /\ refreshButton = ""
  /\ handlers = << >>
  /\ toWindow = << >>
  /\ toWorker = << >>

\* what the refresh button should navigate to after a response with these
\* comments: the anchor of the first interesting new comment, else of the first
\* new comment; << >> when the response has no new comment
AnchorOfResponse(comments, thisPageWatchedSections) ==
  LET new == NewInResponse(comments)
      interesting == {k \in new : isInteresting(comments[k], thisPageWatchedSections)}
      first(positions) == CHOOSE k \in positions : \A j \in positions : k <= j
  IN IF interesting # {} THEN comments[first(interesting)].anchor
     ELSE IF new # {} THEN comments[first(new)].anchor
     ELSE << >>

\* navPanel.refreshClick(): the commentAnchor handed to reloadPage (line 730),
\* << >> when relevantNewCommentAnchor is undefined or null
refreshClickAnchor(anchor) == IF anchor \in {<<Undefined>>, <<Null>>} THEN << >> ELSE anchor

AnchorFollowsResponse ==
  \A i \in 1..Len(handlers) :
    HandlerResumes(i) =>
      \E thisPageWatchedSections \in WatchedSections \cup {NoWatchedSections} :
        refreshClickAnchor(relevantNewCommentAnchor') =
          AnchorOfResponse(handlers[i].comments, thisPageWatchedSections)

\* C29: when the handler of a parse response has updated the panel, the anchor
\* that the refresh button navigates to is that of the first interesting new
\* comment of the response, else of its first new comment, and is unset when
\* the response has no new comment.
C29_AnchorOfLatestResponse == [][AnchorFollowsResponse]_vars

\* C30: between two resets no anchor is put into notifyAbout by more than one
\* handler of a parse response, however the handlers are suspended at their
\* awaits.
C30_NotifiedOnce ==
  \A j, k \in 1..Len(selected) : selected[j] = selected[k] => j = k

\* C31: at most one visibilitychange callback of checkForNewComments is
\* registered at any time, so that one change of visibility starts at most one
\* check at once.
C31_OneVisibilityCallback == visibilityCallbacks <= 1

\* C32: whenever isBackgroundCheckArranged is true, a visibilitychange callback
\* of checkForNewComments is registered.
C32_ArrangedHasCallback == isBackgroundCheckArranged => visibilityCallbacks >= 1

\* C33: every comment that the worker attributed to a section reaches the
\* window in the response of that parse, and the section headline and anchor
\* that the window reads from its record are those of the section that
\* getSection() returned in the worker.
C33_GroupedUnderWorkerSection ==
  handled = "parse" =>
    \A k \in 1..Len(built) :
      LET found == getSection(built[k], cdSections)
      IN found # << >> =>
           \E i \in 1..Len(Emitted) :
             /\ Emitted[i].id = built[k].id
             /\ sectionAnchorOf(Emitted[i]) = <<found[1].anchor>>
             /\ sectionHeadlineOf(Emitted[i]) = <<found[1].headline>>

\* C34: at every moment, reading the section property of a comment returns
\* what getSection() returns at that moment, whenever the property was read
\* before.
C34_SectionIsGetSection ==
  \A k \in 1..Len(parsing.comments) :
    sectionGetter(cachedSection[k], parsing.comments[k], parsing.sections).value
      = getSection(parsing.comments[k], parsing.sections)

\* C35: after processVisits has run with a non-empty list of previous visits,
\* every comment's newness is null if it has no date or its date is not later
\* than the oldest retained visit, "unseen" if its date is later than that visit
\* and it is either later than the most recent previous visit and not the
\* user's own or its anchor is memorized as unseen, and "new" otherwise; the
\* visits are the retained ones followed by the current time, once.
C35_NewnessAfterVisits ==
  (visitsCall.made /\ visitsCall.visits # << >>) =>
    LET previous == visitsCall.visits
        oldest == thisPageVisits[1]
    IN /\ \A i \in 1..Len(pageComments) :
            LET comment == pageComments[i]
            IN comment.newness =
                 IF comment.date = NoNumber \/ comment.date <= oldest THEN Null
                 ELSE IF (comment.date > Last(previous) /\ ~comment.own)
                         \/ comment.anchor \in visitsCall.memorized
                      THEN "unseen"
                      ELSE "new"
       /\ \E j \in 1..Len(previous) :
            thisPageVisits =
              Append(SubSeq(previous, j, Len(previous)), visitsCall.currentUnixTime)

\* a call with two previous visits that left a memorized comment dated between
\* them as unseen
C35_Witness ==
  /\ visitsCall.made
  /\ Len(visitsCall.visits) = 2
  /\ Len(thisPageVisits) = 3
  /\ pageComments[1].date <= Last(visitsCall.visits)
  /\ pageComments[1].newness = "unseen"

\* C36: whenever a comment is unseen and no automatic scroll is in progress,
\* a call of goToFirstUnseenComment scrolls to the unseen comment with the
\* lowest id, whatever calls came before.
C36_ScrollsToFirstUnseen ==
  (~autoScrollInProgress /\ \E i \in 1..Len(pageComments) : pageComments[i].newness = "unseen")
    => /\ goToFirstUnseenTarget # 0
       /\ pageComments[goToFirstUnseenTarget].newness = "unseen"
       /\ \A j \in 1..(goToFirstUnseenTarget - 1) : pageComments[j].newness # "unseen"

\* an earlier call has scrolled to a comment, now seen, and unseen comments
\* remain after it
C36_Witness ==
  /\ ~autoScrollInProgress
  /\ lastFirstTimeSeenCommentId # NoNumber
  /\ lastFirstTimeSeenCommentId + 1 < Len(pageComments)
  /\ pageComments[lastFirstTimeSeenCommentId + 1].newness = "new"
  /\ unseenCount(pageComments) = 2
  /\ goToFirstUnseenTarget = Len(pageComments) - 1

====
